---- MODULE Spec2Model ----
(***************************************************************************)
(* The tick-driven job-shop kernel (simulation.py) with its machine state  *)
(* machine (machines.py), job model (jobs.py) and IHA planner              *)
(* (iha_scheduler.py).                                                     *)
(*                                                                         *)
(* Sensor readings are reals in the program; here they are integers on a   *)
(* coarse scale (one unit is one band of the sensor range), so that the    *)
(* comparisons the code makes (>= threshold, >= 0.80 of the threshold,     *)
(* max(base, .)) are kept and the random load, noise and spike of one tick *)
(* become a choice of how many bands the reading climbs.  Probabilities    *)
(* and the risk threshold are in percent.  Energy is in kW-ticks.          *)
(***************************************************************************)
EXTENDS Integers, Sequences, FiniteSets, TLC

\* ---------------------------------------------------------------- bounds
\* run(max_ticks): number of ticks the driver runs at most
MaxTick == 12
\* seed_jobs: number of jobs enqueued by the constructor
NumJobs == 2
\* how often, over a run, the random load of a tick of work (noise or spike)
\* lifts a reading of the working machine by a band
MaxNoise == 2

\* ------------------------------------------------------ program constants
IHA_INTERVAL == 10
WARMUP_TICKS == 3
\* THRESHOLD when model_meta.json gives none, and its floor (percent)
DEFAULT_THRESHOLD == 50
THRESHOLD_FLOOR == 32
\* eps of run_iha: the cost that pads the square matrices
IHA_EPS == 99
\* weights=(0.6, 0.4) of the kernel's run_iha calls, in tenths
IHA_W1 == 6
IHA_W2 == 4
\* _cooldown of an idle machine, per tick
COOL_TEMP == 1
COOL_VIB == 1
\* the same in hundredths of a degree and of a mm/s
COOL_TEMP_C == 120
COOL_VIB_C == 25

\* the machine registry of WorkspaceSimulation.__init__ (classes A and B)
machines ==
  << [class_name |-> "A", machine_id |-> "A_1", temp_base |-> 3,
      temp_threshold |-> 5, vib_base |-> 3, vib_threshold |-> 4, repair_time |-> 3],
     [class_name |-> "A", machine_id |-> "A_2", temp_base |-> 3,
      temp_threshold |-> 4, vib_base |-> 3, vib_threshold |-> 5, repair_time |-> 3],
     [class_name |-> "B", machine_id |-> "B_1", temp_base |-> 4,
      temp_threshold |-> 6, vib_base |-> 2, vib_threshold |-> 3, repair_time |-> 5] >>

M == 1 .. Len(machines)
Classes == {machines[m].class_name : m \in M}
JobIds == 1 .. NumJobs
NoJob == 0

\* the jobs Job.make_random builds for the seeds, in turn: the ROUTE_PATTERNS
\* over the classes of the registry, ["A","B"] and ["A","A","B"], every step
\* >= 2 ticks, total duration 8
MkStep(c, d, p) == [cls |-> c, rem |-> d, pwr |-> p]
JobCatalog ==
  << [temp_inc |-> 0, vib_inc |-> 0, reduction |-> 50,
      steps |-> << MkStep("A", 2, 2), MkStep("B", 6, 2) >>],
     [temp_inc |-> 0, vib_inc |-> 0, reduction |-> 50,
      steps |-> << MkStep("A", 2, 3), MkStep("A", 2, 3), MkStep("B", 4, 4) >>] >>

\* random.uniform noise plus _maybe_spike of one tick of work, in bands
Noise == {0, 1}
\* what model.predict_proba can return (percent), and -1 when it raises
Probs == {-1, 31, 40}
\* prob before predict_proba has been called for the machine being visited
NotCalled == -2
\* chosen_threshold values model_meta.json may hold (percent), 0 when absent
MetaThresholds == {0, 20}

\* ----------------------------------------------------------------- state
VARIABLES
  t,               \* self.t
  pc,              \* position inside tick(): "tick","assign","predict","step","end","stopped"
  mi,              \* index of the machine the processing loop is at
  mach,            \* dynamic attributes of each machine
  jobs,            \* the Job objects
  class_queues,    \* self.class_queues
  completed_jobs,  \* self.completed_jobs
  pub,             \* what the current tick has published, in order
  THRESHOLD,       \* module global THRESHOLD
  chosen_threshold, \* "chosen_threshold" of model_meta.json, 0 when absent
  prob,            \* local prob of _maybe_predict_failure for the machine visited
  has_scipy,       \* _HAS_SCIPY
  cs0,             \* each job's current_step when the current tick began
  work0,           \* each job's remaining ticks, over all its steps, when the
                   \* current tick began
  last_failed,     \* per machine: tick and job of its latest FAILED, while it matters
  last_preempted,  \* per machine: the tick of its latest PREDICTION, while it
                   \* matters (0: none)
  noise_used,      \* how many band lifts the random load has caused so far
  quiet_at_start,  \* whether all was idle and empty when the current tick began
  tally,           \* per job, over the job-shop events published so far: the
                   \* STARTED less the STEP_DONE, COMPLETED, FAILED and
                   \* PREDICTION (open), the STEP_DONE and the COMPLETED
  job_events,      \* per job: the types of its job-shop events so far, in order
                   \* (<<"DISTURBED">> from its first FAILED or PREDICTION on)
  first_started,   \* per job: the tick of its first STARTED (0: none yet)
  target_class,    \* target_class of the latest _run_iha_scheduler call of the
                   \* tick: "ALL", a class, or "" when none was made
  queues_before,   \* self.class_queues as that call found them
  iha_call,        \* a call of run_iha taken on its own: job_list, mach_list and
                   \* the assignments it returned
  offered,         \* the job handed to Machine.assign when the method is
                   \* called on its own (NoJob in a run of the kernel, where
                   \* _assign_tasks makes every call)
  edge,            \* the edge publisher: its caches, its pending rows, the
                   \* rows it has published and how far it has read the
                   \* kernel's stream (it reads nothing unless it is run)
  env              \* the simpy.Environment of the discrete-event driver: the
                   \* events scheduled, and the processes resumed so far in
                   \* the current minute (empty under the tick driver)

vars == << t, pc, mi, mach, jobs, class_queues, completed_jobs, pub,
           THRESHOLD, chosen_threshold, prob, has_scipy, cs0, work0, last_failed, last_preempted,
           noise_used, quiet_at_start, job_events, tally, first_started,
           target_class, queues_before, iha_call, offered, edge, env >>

\* ------------------------------------------------------------ Job (jobs.py)
RECURSIVE SumRem(_, _)
\* the sum of the rem fields of steps 1 .. n
SumRem(steps, n) == IF n = 0 THEN 0 ELSE steps[n].rem + SumRem(steps, n - 1)

\* Job.done (current_step counts finished steps, as in the code)
done(j) == j.current_step >= Len(j.steps)

\* Job.required_class
required_class(j) == IF done(j) THEN "" ELSE j.steps[j.current_step + 1].cls

\* Job.remaining_ticks_on_step
remaining_ticks_on_step(j) == IF done(j) THEN 0 ELSE j.steps[j.current_step + 1].rem

\* Job.current_power_kw
current_power_kw(j) == IF done(j) THEN 0 ELSE j.steps[j.current_step + 1].pwr

\* a tick of work that counts two ticks
work_one_tick_double(j) ==
  IF done(j) THEN j
  ELSE LET i == j.current_step + 1
           rem == j.steps[i].rem - 2
       IN [j EXCEPT !.energy_used = @ + j.steps[i].pwr,
                    !.steps[i].rem = rem,
                    !.current_step = IF rem <= 0 THEN @ + 1 ELSE @]

\* a tick of work that never moves on to the next step
work_one_tick_no_advance(j) ==
  IF done(j) THEN j
  ELSE LET i == j.current_step + 1
       IN [j EXCEPT !.energy_used = @ + j.steps[i].pwr,
                    !.steps[i].rem = @ - 1]

\* Job.work_one_tick
work_one_tick(j) ==
  IF done(j) THEN j
  ELSE LET i == j.current_step + 1
           rem == j.steps[i].rem - 1
       IN [j EXCEPT !.energy_used = @ + j.steps[i].pwr,
                    !.steps[i].rem = rem,
                    !.current_step = IF rem <= 0 THEN @ + 1 ELSE @]

\* a put-back that rewinds the step by the tick the failure interrupted
put_back_unfinished_step_front_rewinds(j) ==
  IF done(j) THEN j ELSE [j EXCEPT !.steps[j.current_step + 1].rem = @ + 1]

\* Job.put_back_unfinished_step_front: returns without touching the job
put_back_unfinished_step_front(j) == j

\* Job.make_random, for the job with counter value id and catalog entry c
make_random(id, c) ==
  [job_id |-> id, temp_inc |-> c.temp_inc, vib_inc |-> c.vib_inc,
   reduction |-> c.reduction, steps |-> c.steps, current_step |-> 0,
   energy_used |-> 0]

\* ------------------------------------------------- IHA (iha_scheduler.py)
Max2(a, b) == IF a >= b THEN a ELSE b
SetMin(S) == CHOOSE x \in S : \A y \in S : x <= y
SetMax(S) == CHOOSE x \in S : \A y \in S : x >= y

\* run_iha, "Build cost matrices" .. "L = w1 * L1n + w2 * L2n": the k x k cost
\* matrix for jobs with remaining ticks rems and machines with workloads
\* works.  Every cell is the program's cost times the same positive factor
\* (10 * range(L1) * range(L2)), so that the cells compare as in the program.
CostMatrix(rems, works, w1, w2) ==
  LET n == Len(rems)
      m == Len(works)
      K == 1 .. Max2(n, m)
      real(i, j) == i <= n /\ j <= m
      L1(i, j) == IF real(i, j) THEN rems[i] ELSE IHA_EPS
      L2(i, j) == IF real(i, j) THEN works[j] ELSE IHA_EPS
      mn1 == SetMin({L1(i, j) : i \in K, j \in K})
      mx1 == SetMax({L1(i, j) : i \in K, j \in K})
      mn2 == SetMin({L2(i, j) : i \in K, j \in K})
      mx2 == SetMax({L2(i, j) : i \in K, j \in K})
      \* _normalize_matrix: a matrix whose range is zero becomes all zeros
      D1 == IF mx1 = mn1 THEN 1 ELSE mx1 - mn1
      D2 == IF mx2 = mn2 THEN 1 ELSE mx2 - mn2
      N1(i, j) == IF mx1 = mn1 THEN 0 ELSE L1(i, j) - mn1
      N2(i, j) == IF mx2 = mn2 THEN 0 ELSE L2(i, j) - mn2
  IN [i \in K |-> [j \in K |-> w1 * N1(i, j) * D2 + w2 * N2(i, j) * D1]]

RECURSIVE GreedyPick(_, _, _, _, _)
\* _greedy_assignment: the cells in ascending cost (the sort is stable, so
\* equal costs keep row-major order), taking each cell whose row and column
\* are free, until k rows are taken
GreedyPick(L, k, rows, cols, pairs) ==
  IF Cardinality(rows) >= k \/ Cardinality(cols) >= k THEN pairs
  ELSE LET free == {c \in (1 .. k) \X (1 .. k) : c[1] \notin rows /\ c[2] \notin cols}
           before(a, b) ==
              \/ L[a[1]][a[2]] < L[b[1]][b[2]]
              \/ /\ L[a[1]][a[2]] = L[b[1]][b[2]]
                 /\ (a[1] < b[1] \/ (a[1] = b[1] /\ a[2] <= b[2]))
           c == CHOOSE a \in free : \A b \in free : before(a, b)
       IN GreedyPick(L, k, rows \cup {c[1]}, cols \cup {c[2]}, Append(pairs, c))

\* a greedy fallback that stops after its first pair
_greedy_assignment_one_pair(L, k) == SubSeq(GreedyPick(L, k, {}, {}, << >>), 1, 1)

_greedy_assignment(L, k) == GreedyPick(L, k, {}, {}, << >>)

RECURSIVE RowSum(_, _, _)
RowSum(L, f, i) == IF i = 0 THEN 0 ELSE L[i][f[i]] + RowSum(L, f, i - 1)

\* scipy.optimize.linear_sum_assignment: a minimum-cost perfect matching,
\* returned with the rows in ascending order.  Which of several minimum-cost
\* matchings the library returns is not specified: every one is possible.
linear_sum_assignment(L, k) ==
  LET K == 1 .. k
      perms == {f \in [K -> K] : \A a \in K, b \in K : f[a] = f[b] => a = b}
      best == {f \in perms : \A g \in perms : RowSum(L, f, k) <= RowSum(L, g, k)}
  IN {[i \in K |-> << i, f[i] >>] : f \in best}

\* the last loop of run_iha: keep the pairs of real rows and real columns
KeepReal(pairs, n, m) ==
  LET ok(p) == p[1] <= n /\ p[2] <= m
  IN SelectSeq(pairs, ok)

\* run_iha(jobs, machines, weights): the set of lists of (job index, machine
\* index) pairs it can return; scipy tells which solver is installed
run_iha(rems, works, w1, w2, scipy) ==
  LET n == Len(rems)
      m == Len(works)
      k == Max2(n, m)
      L == CostMatrix(rems, works, w1, w2)
  IN IF n = 0 \/ m = 0 THEN {<< >>}
     ELSE IF scipy THEN {KeepReal(p, n, m) : p \in linear_sum_assignment(L, k)}
     ELSE {KeepReal(_greedy_assignment(L, k), n, m)}


\* no call of run_iha on its own
NoCall == [job_list |-> << >>, mach_list |-> << >>, assignments |-> << >>]
\* ------------------------------------------------- Machine (machines.py)
\* Machine.__post_init__ and the field defaults
NewMachine(i) ==
  [temperature |-> machines[i].temp_base, vibration |-> machines[i].vib_base,
   busy_with |-> NoJob, repairing_left |-> 0, total_power_kwh |-> 0]

\* Machine.operational
operational(ms) == ms.repairing_left = 0

\* Machine.idle
idle(ms) == operational(ms) /\ ms.busy_with = NoJob

\* an assign that takes a job of any class
assign_ignores_class(i, ms, job) ==
  IF ~idle(ms) THEN [ok |-> FALSE, m |-> ms]
  ELSE LET temp_diff == ms.temperature - machines[i].temp_base
           vib_diff == ms.vibration - machines[i].vib_base
           cooled == IF job.reduction > 0
                     THEN [ms EXCEPT !.temperature = @ - (temp_diff * job.reduction + 99) \div 100,
                                     !.vibration = @ - (vib_diff * job.reduction + 99) \div 100]
                     ELSE ms
       IN [ok |-> TRUE, m |-> [cooled EXCEPT !.busy_with = job.job_id]]

\* Machine.assign(job) on machine i in state ms: [ok, m]
assign(i, ms, job) ==
  IF ~idle(ms) THEN [ok |-> FALSE, m |-> ms]
  ELSE IF required_class(job) # machines[i].class_name THEN [ok |-> FALSE, m |-> ms]
  ELSE LET temp_diff == ms.temperature - machines[i].temp_base
           vib_diff == ms.vibration - machines[i].vib_base
           cooled == IF job.reduction > 0
                     THEN [ms EXCEPT !.temperature = @ - (temp_diff * job.reduction + 99) \div 100,
                                     !.vibration = @ - (vib_diff * job.reduction + 99) \div 100]
                     ELSE ms
       IN [ok |-> TRUE, m |-> [cooled EXCEPT !.busy_with = job.job_id]]

\* a cooldown that charges an idle tick to the power total
_cooldown_draws_power(i, ms) ==
  [ms EXCEPT !.temperature = Max2(machines[i].temp_base, @ - COOL_TEMP),
             !.vibration = Max2(machines[i].vib_base, @ - COOL_VIB),
             !.total_power_kwh = @ + 1]

\* Machine._cooldown
_cooldown(i, ms) ==
  [ms EXCEPT !.temperature = Max2(machines[i].temp_base, @ - COOL_TEMP),
             !.vibration = Max2(machines[i].vib_base, @ - COOL_VIB)]

\* a step() that lets the job go over a threshold without starting a repair
step_fails_without_repair(i, ms, j, nt, nv) ==
  IF ms.repairing_left > 0
  THEN LET left == ms.repairing_left - 1
       IN [m |-> IF left = 0
                 THEN [ms EXCEPT !.repairing_left = 0,
                                 !.temperature = machines[i].temp_base,
                                 !.vibration = machines[i].vib_base]
                 ELSE [ms EXCEPT !.repairing_left = left],
           event |-> "None", job |-> j]
  ELSE IF ms.busy_with # NoJob
  THEN LET hot == [ms EXCEPT !.temperature = @ + j.temp_inc + nt,
                             !.vibration = @ + j.vib_inc + nv,
                             !.total_power_kwh = @ + current_power_kw(j)]
       IN IF \/ hot.temperature >= machines[i].temp_threshold
             \/ hot.vibration >= machines[i].vib_threshold
          THEN [m |-> [hot EXCEPT !.busy_with = NoJob],
                event |-> "FAILED", job |-> put_back_unfinished_step_front(j)]
          ELSE LET before == remaining_ticks_on_step(j)
                   w == work_one_tick(j)
               IN IF done(w)
                  THEN [m |-> [hot EXCEPT !.busy_with = NoJob],
                        event |-> "COMPLETED", job |-> w]
                  ELSE IF before = 1
                  THEN [m |-> [hot EXCEPT !.busy_with = NoJob],
                        event |-> "STEP_DONE", job |-> w]
                  ELSE [m |-> hot, event |-> "None", job |-> w]
  ELSE [m |-> _cooldown(i, ms), event |-> "None", job |-> j]

\* a step() whose repair ends with the readings where the failure left them
step_repair_keeps_heat(i, ms, j, nt, nv) ==
  IF ms.repairing_left > 0
  THEN LET left == ms.repairing_left - 1
       IN [m |-> IF left = 0
                 THEN [ms EXCEPT !.repairing_left = 0]
                 ELSE [ms EXCEPT !.repairing_left = left],
           event |-> "None", job |-> j]
  ELSE IF ms.busy_with # NoJob
  THEN LET hot == [ms EXCEPT !.temperature = @ + j.temp_inc + nt,
                             !.vibration = @ + j.vib_inc + nv,
                             !.total_power_kwh = @ + current_power_kw(j)]
       IN IF \/ hot.temperature >= machines[i].temp_threshold
             \/ hot.vibration >= machines[i].vib_threshold
          THEN [m |-> [hot EXCEPT !.busy_with = NoJob,
                                  !.repairing_left = machines[i].repair_time],
                event |-> "FAILED", job |-> put_back_unfinished_step_front(j)]
          ELSE LET before == remaining_ticks_on_step(j)
                   w == work_one_tick(j)
               IN IF done(w)
                  THEN [m |-> [hot EXCEPT !.busy_with = NoJob],
                        event |-> "COMPLETED", job |-> w]
                  ELSE IF before = 1
                  THEN [m |-> [hot EXCEPT !.busy_with = NoJob],
                        event |-> "STEP_DONE", job |-> w]
                  ELSE [m |-> hot, event |-> "None", job |-> w]
  ELSE [m |-> _cooldown(i, ms), event |-> "None", job |-> j]

\* a step() that ends a repair in one tick
step_repair_at_once(i, ms, j, nt, nv) ==
  IF ms.repairing_left > 0
  THEN LET left == 0
       IN [m |-> IF left = 0
                 THEN [ms EXCEPT !.repairing_left = 0,
                                 !.temperature = machines[i].temp_base,
                                 !.vibration = machines[i].vib_base]
                 ELSE [ms EXCEPT !.repairing_left = left],
           event |-> "None", job |-> j]
  ELSE IF ms.busy_with # NoJob
  THEN LET hot == [ms EXCEPT !.temperature = @ + j.temp_inc + nt,
                             !.vibration = @ + j.vib_inc + nv,
                             !.total_power_kwh = @ + current_power_kw(j)]
       IN IF \/ hot.temperature >= machines[i].temp_threshold
             \/ hot.vibration >= machines[i].vib_threshold
          THEN [m |-> [hot EXCEPT !.busy_with = NoJob,
                                  !.repairing_left = machines[i].repair_time],
                event |-> "FAILED", job |-> put_back_unfinished_step_front(j)]
          ELSE LET before == remaining_ticks_on_step(j)
                   w == work_one_tick(j)
               IN IF done(w)
                  THEN [m |-> [hot EXCEPT !.busy_with = NoJob],
                        event |-> "COMPLETED", job |-> w]
                  ELSE IF before = 1
                  THEN [m |-> [hot EXCEPT !.busy_with = NoJob],
                        event |-> "STEP_DONE", job |-> w]
                  ELSE [m |-> hot, event |-> "None", job |-> w]
  ELSE [m |-> _cooldown(i, ms), event |-> "None", job |-> j]

\* Machine.step() on machine i in state ms, j the job it holds (if any), nt
\* and nv the random part of this tick's load: [m, event, job], job being
\* the held job as step() leaves it
step(i, ms, j, nt, nv) ==
  IF ms.repairing_left > 0
  THEN LET left == ms.repairing_left - 1
       IN [m |-> IF left = 0
                 THEN [ms EXCEPT !.repairing_left = 0,
                                 !.temperature = machines[i].temp_base,
                                 !.vibration = machines[i].vib_base]
                 ELSE [ms EXCEPT !.repairing_left = left],
           event |-> "None", job |-> j]
  ELSE IF ms.busy_with # NoJob
  THEN LET hot == [ms EXCEPT !.temperature = @ + j.temp_inc + nt,
                             !.vibration = @ + j.vib_inc + nv,
                             !.total_power_kwh = @ + current_power_kw(j)]
       IN IF \/ hot.temperature >= machines[i].temp_threshold
             \/ hot.vibration >= machines[i].vib_threshold
          THEN [m |-> [hot EXCEPT !.busy_with = NoJob,
                                  !.repairing_left = machines[i].repair_time],
                event |-> "FAILED", job |-> put_back_unfinished_step_front(j)]
          ELSE LET before == remaining_ticks_on_step(j)
                   w == work_one_tick(j)
               IN IF done(w)
                  THEN [m |-> [hot EXCEPT !.busy_with = NoJob],
                        event |-> "COMPLETED", job |-> w]
                  ELSE IF before = 1
                  THEN [m |-> [hot EXCEPT !.busy_with = NoJob],
                        event |-> "STEP_DONE", job |-> w]
                  ELSE [m |-> hot, event |-> "None", job |-> w]
  ELSE [m |-> _cooldown(i, ms), event |-> "None", job |-> j]

\* Machine.status_json: the current_job field
current_job(ms) ==
  IF ms.repairing_left > 0 THEN "REPAIR"
  ELSE IF ms.busy_with # NoJob THEN "JOB" ELSE "IDLE"

\* ------------------------------------------ kernel helpers (simulation.py)
\* one publication: a job-shop event on jobshop/status, a status snapshot on
\* job/status or a telemetry sample on job/telemetry.  machine is the machine
\* whose visit published it (the STEP_DONE payload itself carries none).
Msg(type, ts, m, job_id, cls, reason, risk, thr) ==
  [type |-> type, timestamp |-> ts, machine |-> m, job_id |-> job_id,
   cls |-> cls, reason |-> reason, risk_score |-> risk, threshold |-> thr]

\* a publisher that forgets the FAILED events
_publish_jobshop_event_no_failed(pb, msg) ==
  IF msg.type = "FAILED" THEN pb ELSE Append(pb, msg)

\* a publisher that forgets the STARTED events
_publish_jobshop_event_no_started(pb, msg) ==
  IF msg.type = "STARTED" THEN pb ELSE Append(pb, msg)

\* _publish_jobshop_event
_publish_jobshop_event(pb, msg) == Append(pb, msg)

\* a status publisher that sends every snapshot twice
_publish_job_status_twice(pb, ts, i, ms) ==
  LET snap == Msg("status", ts, i, ms.busy_with, machines[i].class_name,
                  current_job(ms), 0, 0)
  IN Append(Append(pb, snap), snap)

\* _publish_job_status
_publish_job_status(pb, ts, i, ms) ==
  Append(pb, Msg("status", ts, i, ms.busy_with, machines[i].class_name,
                 current_job(ms), 0, 0))

\* _publish_job_telemetry
_publish_job_telemetry(pb, ts, i, ms) ==
  Append(pb, Msg("telemetry", ts, i, NoJob, machines[i].class_name, "", 0, 0))

\* a push to the front that loses the job
_enqueue_current_step_front_lost(qs, job) == qs

\* _enqueue_current_step_front
_enqueue_current_step_front(qs, job) ==
  [qs EXCEPT ![required_class(job)] = << job.job_id >> \o @]

\* an append that files the job under the class of the step it just finished
_enqueue_next_step_old_class(qs, job) ==
  IF ~done(job)
  THEN [qs EXCEPT ![job.steps[job.current_step].cls] = Append(@, job.job_id)]
  ELSE qs

\* _enqueue_next_step
_enqueue_next_step(qs, job) ==
  IF ~done(job) THEN [qs EXCEPT ![required_class(job)] = Append(@, job.job_id)]
  ELSE qs

\* the registry indices of the machines of class cls, in registry order
class_machines(cls) ==
  LET of_cls(i) == machines[i].class_name = cls
  IN SelectSeq([i \in M |-> i], of_cls)

\* a queue order that keeps only the jobs IHA paired
final_order_drops_rest(ready_jobs, assignments) ==
  [x \in 1 .. Len(assignments) |-> ready_jobs[assignments[x][1]]]

\* a queue order that puts the jobs IHA left unpaired first
final_order_rest_first(ready_jobs, assignments) ==
  LET ordered_jobs == [x \in 1 .. Len(assignments) |-> ready_jobs[assignments[x][1]]]
      rest(j) == \A x \in 1 .. Len(ordered_jobs) : ordered_jobs[x] # j
  IN SelectSeq(ready_jobs, rest) \o ordered_jobs

\* lines "New queue ordering" of _run_iha_scheduler: the queue installed for
\* the pairs IHA returned
final_order(ready_jobs, assignments) ==
  LET ordered_jobs == [x \in 1 .. Len(assignments) |-> ready_jobs[assignments[x][1]]]
      rest(j) == \A x \in 1 .. Len(ordered_jobs) : ordered_jobs[x] # j
      remaining_jobs == SelectSeq(ready_jobs, rest)
  IN ordered_jobs \o remaining_jobs

\* the body of the loop of _run_iha_scheduler for class cls: the queues it
\* can install for that class (a class without a queue yet behaves as one
\* with an empty queue: it is skipped)
ReplanClass(cls, q, ms, js, scipy) ==
  LET cm == class_machines(cls)
      rems == [x \in 1 .. Len(q) |-> remaining_ticks_on_step(js[q[x]])]
      works == [x \in 1 .. Len(cm) |-> ms[cm[x]].temperature + ms[cm[x]].vibration]
  IN IF q = << >> \/ cm = << >> THEN {q}
     ELSE {IF a = << >> THEN q ELSE final_order(q, a) :
              a \in run_iha(rems, works, IHA_W1, IHA_W2, scipy)}

\* a scheduler that re-plans every class whatever its target_class
_run_iha_scheduler_all_classes(target, qs, ms, js, scipy) ==
  {f \in [Classes -> UNION {ReplanClass(c, qs[c], ms, js, scipy) : c \in Classes}] :
     \A c \in Classes : f[c] \in ReplanClass(c, qs[c], ms, js, scipy)}

\* _run_iha_scheduler(target_class): the class queues it can leave
_run_iha_scheduler(target, qs, ms, js, scipy) ==
  IF target = "ALL"
  THEN {f \in [Classes -> UNION {ReplanClass(c, qs[c], ms, js, scipy) : c \in Classes}] :
           \A c \in Classes : f[c] \in ReplanClass(c, qs[c], ms, js, scipy)}
  ELSE IF target \notin Classes THEN {qs}
  ELSE {[qs EXCEPT ![target] = q] : q \in ReplanClass(target, qs[target], ms, js, scipy)}

RECURSIVE AssignLoop_drops_refused(_, _, _, _, _, _)
\* an assignment loop that does not put a refused job back
AssignLoop_drops_refused(i, ms, qs, pb, js, ts) ==
  IF i > Len(machines) THEN [mach |-> ms, class_queues |-> qs, pub |-> pb]
  ELSE LET cls == machines[i].class_name
       IN IF ms[i].repairing_left > 0 \/ ~idle(ms[i])
          THEN AssignLoop_drops_refused(i + 1, ms, qs, pb, js, ts)
          ELSE IF qs[cls] = << >>
          THEN AssignLoop_drops_refused(i + 1, ms, qs, pb, js, ts)
          ELSE LET job == js[Head(qs[cls])]
                   popped == [qs EXCEPT ![cls] = Tail(@)]
                   r == assign(i, ms[i], job)
               IN IF r.ok
                  THEN AssignLoop_drops_refused(i + 1, [ms EXCEPT ![i] = r.m], popped,
                         _publish_jobshop_event(pb,
                            Msg("STARTED", ts, i, job.job_id, cls, "IHA", 0, 0)),
                         js, ts)
                  ELSE AssignLoop_drops_refused(i + 1, ms, popped, pb, js, ts)

RECURSIVE AssignLoop(_, _, _, _, _, _)
\* _assign_tasks from machine i on: [mach, class_queues, pub]
AssignLoop(i, ms, qs, pb, js, ts) ==
  IF i > Len(machines) THEN [mach |-> ms, class_queues |-> qs, pub |-> pb]
  ELSE LET cls == machines[i].class_name
       IN IF ms[i].repairing_left > 0 \/ ~idle(ms[i])
          THEN AssignLoop(i + 1, ms, qs, pb, js, ts)
          ELSE IF qs[cls] = << >>
          THEN AssignLoop(i + 1, ms, qs, pb, js, ts)
          ELSE LET job == js[Head(qs[cls])]
                   popped == [qs EXCEPT ![cls] = Tail(@)]
                   r == assign(i, ms[i], job)
               IN IF r.ok
                  THEN AssignLoop(i + 1, [ms EXCEPT ![i] = r.m], popped,
                         _publish_jobshop_event(pb,
                            Msg("STARTED", ts, i, job.job_id, cls, "IHA", 0, 0)),
                         js, ts)
                  ELSE AssignLoop(i + 1, ms,
                         [popped EXCEPT ![cls] = << job.job_id >> \o @], pb, js, ts)

\* an assignment phase that visits the last machine of the registry only
_assign_tasks_last_machine_only(ms, qs, pb, js, ts) ==
  AssignLoop(Len(machines), ms, qs, pb, js, ts)

\* WorkspaceSimulation._assign_tasks: every machine, in registry order
_assign_tasks(ms, qs, pb, js, ts) == AssignLoop(1, ms, qs, pb, js, ts)

\* a near-limit test that wants both signals near their thresholds
near_limit_both(i, ms) ==
  /\ machines[i].temp_threshold # 0 /\ 5 * ms.temperature >= 4 * machines[i].temp_threshold
  /\ machines[i].vib_threshold # 0 /\ 5 * ms.vibration >= 4 * machines[i].vib_threshold

\* near_limit of _maybe_predict_failure: a ratio >= 0.80 is 5 * x >= 4 * limit
near_limit(i, ms) ==
  \/ machines[i].temp_threshold # 0 /\ 5 * ms.temperature >= 4 * machines[i].temp_threshold
  \/ machines[i].vib_threshold # 0 /\ 5 * ms.vibration >= 4 * machines[i].vib_threshold

\* a hook whose repair lasts as long as the repair after a threshold FAILED
_maybe_predict_failure_long_repair(i, ms, qs, pb, js, ts, pr, thr) ==
  LET same == [mach |-> ms, class_queues |-> qs, pub |-> pb]
  IN IF ms[i].repairing_left > 0 \/ ms[i].busy_with = NoJob THEN same
     ELSE IF pr < 0 THEN same
     ELSE IF pr >= thr /\ near_limit(i, ms[i])
     THEN LET j == put_back_unfinished_step_front(js[ms[i].busy_with])
          IN [mach |-> [ms EXCEPT ![i].busy_with = NoJob,
                                  ![i].repairing_left = machines[i].repair_time + 1],
              class_queues |-> _enqueue_current_step_front(qs, j),
              pub |-> _publish_jobshop_event(pb,
                        Msg("PREDICTION", ts, i, j.job_id, "", "will_fail", pr, thr))]
     ELSE same

\* a hook that hands the preempted job straight to an idle machine of its
\* class that comes later in the registry, when there is one
_maybe_predict_failure_hands_over(i, ms, qs, pb, js, ts, pr, thr) ==
  LET same == [mach |-> ms, class_queues |-> qs, pub |-> pb]
  IN IF ms[i].repairing_left > 0 \/ ms[i].busy_with = NoJob THEN same
     ELSE IF pr < 0 THEN same
     ELSE IF pr >= thr /\ near_limit(i, ms[i])
     THEN LET j == put_back_unfinished_step_front(js[ms[i].busy_with])
              later == {k \in M : k > i /\ idle(ms[k]) /\
                                   machines[k].class_name = required_class(j)}
              stopped == [ms EXCEPT ![i].busy_with = NoJob,
                                    ![i].repairing_left = machines[i].repair_time]
              pb1 == _publish_jobshop_event(pb,
                        Msg("PREDICTION", ts, i, j.job_id, "", "will_fail", pr, thr))
          IN IF later = {}
             THEN [mach |-> stopped, class_queues |-> _enqueue_current_step_front(qs, j),
                   pub |-> pb1]
             ELSE [mach |-> [stopped EXCEPT ![CHOOSE k \in later : \A x \in later : k <= x]
                                               .busy_with = j.job_id],
                   class_queues |-> qs, pub |-> pb1]
     ELSE same

\* a hook that requeues the job and starts the repair but leaves the job on
\* the machine
_maybe_predict_failure_keeps_job(i, ms, qs, pb, js, ts, pr, thr) ==
  LET same == [mach |-> ms, class_queues |-> qs, pub |-> pb]
  IN IF ms[i].repairing_left > 0 \/ ms[i].busy_with = NoJob THEN same
     ELSE IF pr < 0 THEN same
     ELSE IF pr >= thr /\ near_limit(i, ms[i])
     THEN LET j == js[ms[i].busy_with]
          IN [mach |-> [ms EXCEPT ![i].repairing_left = machines[i].repair_time],
              class_queues |-> _enqueue_current_step_front(qs, j),
              pub |-> _publish_jobshop_event(pb,
                        Msg("PREDICTION", ts, i, j.job_id, "", "will_fail", pr, thr))]
     ELSE same

\* a hook that requeues the preempted job at the back of its queue
_maybe_predict_failure_to_back(i, ms, qs, pb, js, ts, pr, thr) ==
  LET same == [mach |-> ms, class_queues |-> qs, pub |-> pb]
  IN IF ms[i].repairing_left > 0 \/ ms[i].busy_with = NoJob THEN same
     ELSE IF pr < 0 THEN same
     ELSE IF pr >= thr /\ near_limit(i, ms[i])
     THEN LET j == js[ms[i].busy_with]
          IN [mach |-> [ms EXCEPT ![i].busy_with = NoJob,
                                  ![i].repairing_left = machines[i].repair_time],
              class_queues |-> [qs EXCEPT ![required_class(j)] = Append(@, j.job_id)],
              pub |-> _publish_jobshop_event(pb,
                        Msg("PREDICTION", ts, i, j.job_id, "", "will_fail", pr, thr))]
     ELSE same

\* a hook that takes a failed invocation of the model for a certain failure
_maybe_predict_failure_raise_preempts(i, ms, qs, pb, js, ts, pr, thr) ==
  LET same == [mach |-> ms, class_queues |-> qs, pub |-> pb]
  IN IF ms[i].repairing_left > 0 \/ ms[i].busy_with = NoJob THEN same
     ELSE IF pr < 0 \/ (pr >= thr /\ near_limit(i, ms[i]))
     THEN LET j == put_back_unfinished_step_front(js[ms[i].busy_with])
          IN [mach |-> [ms EXCEPT ![i].busy_with = NoJob,
                                  ![i].repairing_left = machines[i].repair_time],
              class_queues |-> _enqueue_current_step_front(qs, j),
              pub |-> _publish_jobshop_event(pb,
                        Msg("PREDICTION", ts, i, j.job_id, "", "will_fail", pr, thr))]
     ELSE same

\* _maybe_predict_failure(m) for machine i, pr what predict_proba returns
\* (-1: it raises): [mach, class_queues, pub]
_maybe_predict_failure(i, ms, qs, pb, js, ts, pr, thr) ==
  LET same == [mach |-> ms, class_queues |-> qs, pub |-> pb]
  IN IF ms[i].repairing_left > 0 \/ ms[i].busy_with = NoJob THEN same
     ELSE IF pr < 0 THEN same
     ELSE IF pr >= thr /\ near_limit(i, ms[i])
     THEN LET j == put_back_unfinished_step_front(js[ms[i].busy_with])
          IN [mach |-> [ms EXCEPT ![i].busy_with = NoJob,
                                  ![i].repairing_left = machines[i].repair_time],
              class_queues |-> _enqueue_current_step_front(qs, j),
              pub |-> _publish_jobshop_event(pb,
                        Msg("PREDICTION", ts, i, j.job_id, "", "will_fail", pr, thr))]
     ELSE same

\* a reaction to the events that re-queues the job and never re-plans
HandleEvent_without_replan(i, event, job, ms, qs, done_set, pb, js, ts, scipy) ==
  IF event = "FAILED"
  THEN {[class_queues |-> _enqueue_current_step_front(qs, job),
         completed_jobs |-> done_set,
         pub |-> _publish_jobshop_event(pb,
                    Msg("FAILED", ts, i, job.job_id, machines[i].class_name,
                        "threshold_exceeded", 0, 0)),
         target |-> "", before |-> qs]}
  ELSE IF event = "STEP_DONE"
  THEN {[class_queues |-> _enqueue_next_step(qs, job),
         completed_jobs |-> done_set,
         pub |-> _publish_jobshop_event(pb,
                    Msg("STEP_DONE", ts, i, job.job_id,
                        IF done(job) THEN "" ELSE required_class(job), "", 0, 0)),
         target |-> "", before |-> qs]}
  ELSE IF event = "COMPLETED"
  THEN {[class_queues |-> qs, completed_jobs |-> done_set \cup {job.job_id},
         pub |-> _publish_jobshop_event(pb,
                    Msg("COMPLETED", ts, i, job.job_id, "", "", 0, 0)),
         target |-> "", before |-> qs]}
  ELSE {[class_queues |-> qs, completed_jobs |-> done_set, pub |-> pb,
         target |-> "", before |-> qs]}

\* the reaction of tick() to the event step() returned for machine i (lines
\* "Handle machine events"): the set of [class_queues, completed_jobs, pub]
\* it can leave; job is the job step() returned, already updated in js
HandleEvent(i, event, job, ms, qs, done_set, pb, js, ts, scipy) ==
  IF event = "FAILED"
  THEN LET qs1 == _enqueue_current_step_front(qs, job)
           pb1 == _publish_jobshop_event(pb,
                     Msg("FAILED", ts, i, job.job_id, machines[i].class_name,
                         "threshold_exceeded", 0, 0))
       IN {[class_queues |-> q, completed_jobs |-> done_set, pub |-> pb1,
            target |-> machines[i].class_name, before |-> qs1] :
              q \in _run_iha_scheduler(machines[i].class_name, qs1, ms, js, scipy)}
  ELSE IF event = "STEP_DONE"
  THEN LET pb1 == _publish_jobshop_event(pb,
                     Msg("STEP_DONE", ts, i, job.job_id,
                         IF done(job) THEN "" ELSE required_class(job), "", 0, 0))
           qs1 == _enqueue_next_step(qs, job)
       IN {[class_queues |-> q, completed_jobs |-> done_set, pub |-> pb1,
            target |-> required_class(job), before |-> qs1] :
              q \in _run_iha_scheduler(required_class(job), qs1, ms, js, scipy)}
  ELSE IF event = "COMPLETED"
  THEN {[class_queues |-> qs, completed_jobs |-> done_set \cup {job.job_id},
         pub |-> _publish_jobshop_event(pb,
                    Msg("COMPLETED", ts, i, job.job_id, "", "", 0, 0)),
         target |-> "", before |-> qs]}
  ELSE {[class_queues |-> qs, completed_jobs |-> done_set, pub |-> pb,
         target |-> "", before |-> qs]}

\* a threshold taken from model_meta.json without the 0.32 floor
EffectiveThreshold_no_floor(meta) ==
  IF meta = 0 THEN DEFAULT_THRESHOLD ELSE meta

\* THRESHOLD as the module computes it at import from the value of
\* model_meta.json (0: no file or no value)
EffectiveThreshold(meta) ==
  LET th == IF meta = 0 THEN DEFAULT_THRESHOLD ELSE meta
  IN IF th < THRESHOLD_FLOOR THEN THRESHOLD_FLOOR ELSE th

\* the constructor's seeding loop: enqueue_new_job for jobs 1 .. NumJobs
SeedQueues(js) ==
  [c \in Classes |->
     LET wants(id) == required_class(js[id]) = c
     IN SelectSeq([id \in JobIds |-> id], wants)]

NoJobRec == [job_id |-> NoJob]

\* the end-of-tick test of tick(): every machine idle, every queue empty
quiescent(ms, qs) ==
  /\ \A i \in M : idle(ms[i])
  /\ \A c \in Classes : Len(qs[c]) = 0

RECURSIVE RecordEvents(_, _, _)
\* the per-job event lists after the publications msgs[k ..] (the job-shop
\* events _publish_jobshop_event sent): a FAILED or PREDICTION replaces the
\* job's list by <<"DISTURBED">> for good
RecordEvents(h, msgs, k) ==
  IF k > Len(msgs) THEN h
  ELSE LET e == msgs[k]
           id == e.job_id
       IN IF e.type \in {"FAILED", "PREDICTION"}
          THEN RecordEvents([h EXCEPT ![id] = << "DISTURBED" >>], msgs, k + 1)
          ELSE IF e.type \in {"STARTED", "STEP_DONE", "COMPLETED"}
                  /\ h[id] # << "DISTURBED" >>
          THEN RecordEvents([h EXCEPT ![id] = Append(@, e.type)], msgs, k + 1)
          ELSE RecordEvents(h, msgs, k + 1)

RECURSIVE Tally(_, _, _)
\* the per-job tally after the publications msgs[k ..]
Tally(h, msgs, k) ==
  IF k > Len(msgs) THEN h
  ELSE LET e == msgs[k]
           id == e.job_id
       IN IF e.type = "STARTED"
          THEN Tally([h EXCEPT ![id].open = @ + 1], msgs, k + 1)
          ELSE IF e.type \in {"FAILED", "PREDICTION"}
          THEN Tally([h EXCEPT ![id].open = @ - 1], msgs, k + 1)
          ELSE IF e.type = "STEP_DONE"
          THEN Tally([h EXCEPT ![id].open = @ - 1, ![id].step_done = @ + 1], msgs, k + 1)
          ELSE IF e.type = "COMPLETED"
          THEN Tally([h EXCEPT ![id].open = @ - 1, ![id].completed = @ + 1], msgs, k + 1)
          ELSE Tally(h, msgs, k + 1)

\* the tick of each job's first STARTED after the publications msgs
RecordStarts(fs, msgs) ==
  [id \in JobIds |->
     IF fs[id] = 0 /\ \E k \in 1 .. Len(msgs) :
                        msgs[k].type = "STARTED" /\ msgs[k].job_id = id
     THEN msgs[CHOOSE k \in 1 .. Len(msgs) :
                 msgs[k].type = "STARTED" /\ msgs[k].job_id = id].timestamp
     ELSE fs[id]]

\* ------------------------------------ SimPy driver (simpy_simulation.py)
ASSIGN_PULSE_MIN == 1
IHA_INTERVAL_MIN == 10
TELEMETRY_EVERY_MIN == 1
IDLE_GRACE_MIN == 30

\* idle_start = None in _idle_shutdown_monitor
NoTime == -1

\* no discrete-event environment: the tick driver has none
NoEnv == [queue |-> {}, eid |-> 0, ran |-> << >>, idle_start |-> NoTime]

\* a process of the workspace: the assigner, the IHA pulse, the idle monitor
\* or the driver of machine m
Proc(kind, m) == [kind |-> kind, m |-> m]

\* a driver that starts the machine drivers before the schedulers
SimPyProcesses_machines_first ==
  [i \in M |-> Proc("machine", i)] \o
  << Proc("assigner", 0), Proc("iha", 0), Proc("monitor", 0) >>

\* SimPyWorkspace.__init__, "Spin up background SimPy processes": the
\* processes in the order of their env.process calls
SimPyProcesses ==
  << Proc("assigner", 0), Proc("iha", 0), Proc("monitor", 0) >> \o
  [i \in M |-> Proc("machine", i)]

\* env.process for each process in turn: one start event each (urgent: simpy
\* processes it before the timeouts of the same time), at time 0, numbered
\* in the order of the calls
NewEnv ==
  [queue |-> {[time |-> 0, urgent |-> TRUE, eid |-> k, proc |-> SimPyProcesses[k]] :
                k \in 1 .. Len(SimPyProcesses)},
   eid |-> Len(SimPyProcesses),
   ran |-> << >>,
   idle_start |-> NoTime]

\* the order in which simpy processes scheduled events: by time, then the
\* urgent ones first, then by the order in which they were scheduled
Earlier(e, f) ==
  \/ e.time < f.time
  \/ e.time = f.time /\ e.urgent /\ ~f.urgent
  \/ e.time = f.time /\ e.urgent = f.urgent /\ e.eid <= f.eid

\* Environment.step: the event processed next
NextEvent(ev) == CHOOSE e \in ev.queue : \A f \in ev.queue : Earlier(e, f)

\* the process resumed by the event e yields env.timeout(delay): e leaves
\* the queue, the timeout enters it, and the process is noted as having run
\* at e.time under the name what
Resume(ev, e, now, what, delay) ==
  [ev EXCEPT !.queue = (@ \ {e}) \cup
                        {[time |-> e.time + delay, urgent |-> FALSE, eid |-> ev.eid + 1,
                          proc |-> e.proc]},
             !.eid = @ + 1,
             !.ran = IF e.time > now THEN << what >> ELSE Append(@, what)]

\* SimPyWorkspace._all_done
_all_done(ms, qs) ==
  /\ \A c \in Classes : Len(qs[c]) = 0
  /\ \A i \in M : ms[i].busy_with = NoJob /\ ms[i].repairing_left <= 0

\* _machine_driver, "handle events like your old tick loop": FAILED re-queues
\* the job at the front and re-plans the class of the machine, STEP_DONE
\* files the job for its next step, COMPLETED records it
SimHandleEvent(i, event, job, ms, qs, done_set, pb, js, ts, scipy) ==
  IF event = "FAILED"
  THEN LET qs1 == _enqueue_current_step_front(qs, job)
           pb1 == _publish_jobshop_event(pb,
                     Msg("FAILED", ts, i, job.job_id, machines[i].class_name,
                         "threshold_exceeded", 0, 0))
           cls == machines[i].class_name
       IN {[class_queues |-> [qs1 EXCEPT ![cls] = q], completed_jobs |-> done_set,
            pub |-> pb1] : q \in ReplanClass(cls, qs1[cls], ms, js, scipy)}
  ELSE IF event = "STEP_DONE"
  THEN {[class_queues |-> _enqueue_next_step(qs, job), completed_jobs |-> done_set,
         pub |-> _publish_jobshop_event(pb,
                    Msg("STEP_DONE", ts, i, job.job_id,
                        IF done(job) THEN "" ELSE required_class(job), "", 0, 0))]}
  ELSE IF event = "COMPLETED"
  THEN {[class_queues |-> qs, completed_jobs |-> done_set \cup {job.job_id},
         pub |-> _publish_jobshop_event(pb,
                    Msg("COMPLETED", ts, i, job.job_id, "", "", 0, 0))]}
  ELSE {[class_queues |-> qs, completed_jobs |-> done_set, pub |-> pb]}

\* ----------------------------------------- edge publisher (edge_publisher.py)
\* --flush_delay: the ticks a row waits before it is labelled and published
flush_delay == 1

\* main(), up to client.loop_forever(): empty caches, nothing read.  tick and
\* pos say how far the kernel's stream has been read: pos publications of
\* tick number tick
NewEdge ==
  [on |-> TRUE, tick |-> 0, pos |-> 0,
   status_cache |-> {},
   pending_rows |-> [i \in M |-> << >>],
   failure_ticks |-> [i \in M |-> {}],
   rows |-> << >>]

\* the label given to a row of machine i and tick row_tick when it is flushed
Label(e, i, row_tick) ==
  IF row_tick \in e.failure_ticks[i] \/ (row_tick + 1) \in e.failure_ticks[i]
  THEN 1 ELSE 0

\* publish_row, for each tick of the sequence ticks in turn
PublishRows(e, i, ticks) ==
  e.rows \o [k \in 1 .. Len(ticks) |->
              [machine |-> i, tick |-> ticks[k], failure_flag |-> Label(e, i, ticks[k])]]

\* finalize_flushable_rows(machine_id, current_tick)
finalize_flushable_rows(e, i, current_tick) ==
  LET flushable(row_tick) == row_tick <= current_tick - flush_delay
      kept(row_tick) == ~flushable(row_tick)
  IN [e EXCEPT !.rows = PublishRows(e, i, SelectSeq(e.pending_rows[i], flushable)),
               !.pending_rows[i] = SelectSeq(e.pending_rows[i], kept)]

\* on_message: a status snapshot fills the cache, a telemetry sample becomes
\* a pending row and triggers a flush, a FAILED event is noted with its tick;
\* other job-shop events are ignored.  A row is represented by its tick.
on_message(e, msg) ==
  IF msg.type = "status"
  THEN [e EXCEPT !.status_cache = @ \cup {msg.machine}]
  ELSE IF msg.type = "telemetry"
  THEN finalize_flushable_rows(
         [e EXCEPT !.pending_rows[msg.machine] = Append(@, msg.timestamp)],
         msg.machine, msg.timestamp)
  ELSE IF msg.type = "FAILED"
  THEN [e EXCEPT !.failure_ticks[msg.machine] = @ \cup {msg.timestamp}]
  ELSE e

RECURSIVE FlushAll(_, _)
\* the KeyboardInterrupt handler of main(), from machine i on: every row
\* still pending is labelled and published
FlushAll(e, i) ==
  IF i > Len(machines) THEN e
  ELSE FlushAll([e EXCEPT !.rows = PublishRows(e, i, e.pending_rows[i])], i + 1)

\* ---------------------------------------------------------------- actions
\* WorkspaceSimulation.__init__ and the module globals
Init ==
  /\ t = 0
  /\ pc = "tick"
  /\ mi = 0
  /\ mach = [i \in M |-> NewMachine(i)]
  /\ jobs = [id \in JobIds |-> make_random(id, JobCatalog[((id - 1) % Len(JobCatalog)) + 1])]
  /\ class_queues = SeedQueues(jobs)
  /\ completed_jobs = {}
  /\ pub = << >>
  /\ chosen_threshold \in MetaThresholds
  /\ THRESHOLD = EffectiveThreshold(chosen_threshold)
  /\ prob = NotCalled
  /\ has_scipy \in BOOLEAN
  /\ cs0 = [id \in JobIds |-> 0]
  /\ work0 = [id \in JobIds |-> SumRem(jobs[id].steps, Len(jobs[id].steps))]
  /\ last_failed = [i \in M |-> [tick |-> 0, job |-> NoJob]]
  /\ last_preempted = [i \in M |-> 0]
  /\ noise_used = 0
  /\ target_class = ""
  /\ queues_before = class_queues
  /\ quiet_at_start = FALSE
  /\ job_events = [id \in JobIds |-> << >>]
  /\ tally = [id \in JobIds |-> [open |-> 0, step_done |-> 0, completed |-> 0]]
  /\ first_started = [id \in JobIds |-> 0]
  /\ offered = NoJob
  /\ edge = NewEdge
  /\ env = NoEnv
  /\ iha_call = NoCall

\* tick(), up to the call of _assign_tasks: advance t, run the periodic
\* re-plan when due.  (The recoveries list built here is never read.)
TickStart ==
  /\ pc = "tick"
  /\ t < MaxTick
  /\ t' = t + 1
  /\ IF (t + 1) % IHA_INTERVAL = 1
     THEN class_queues' \in _run_iha_scheduler("ALL", class_queues, mach, jobs, has_scipy)
     ELSE class_queues' = class_queues
  /\ pub' = << >>
  /\ cs0' = [id \in JobIds |-> jobs[id].current_step]
  /\ work0' = [id \in JobIds |-> SumRem(jobs[id].steps, Len(jobs[id].steps))]
  /\ last_failed' = [i \in M |->
        IF last_failed[i].tick # 0 /\ t + 1 > last_failed[i].tick + machines[i].repair_time + 1
        THEN [tick |-> 0, job |-> NoJob] ELSE last_failed[i]]
  /\ last_preempted' = [i \in M |->
        IF t + 1 > last_preempted[i] + machines[i].repair_time THEN 0
        ELSE last_preempted[i]]
  /\ quiet_at_start' = quiescent(mach, class_queues)
  /\ target_class' = IF (t + 1) % IHA_INTERVAL = 1 THEN "ALL" ELSE ""
  /\ queues_before' = class_queues
  /\ pc' = "assign"
  /\ UNCHANGED << iha_call, offered, edge, env, mi, mach, jobs, completed_jobs, THRESHOLD, chosen_threshold, prob,
                  has_scipy, noise_used, job_events, tally, first_started >>

\* tick(): self._assign_tasks()
Assign ==
  /\ pc = "assign"
  /\ LET r == _assign_tasks(mach, class_queues, pub, jobs, t)
     IN /\ mach' = r.mach
        /\ class_queues' = r.class_queues
        /\ pub' = r.pub
        /\ job_events' = RecordEvents(job_events, r.pub, Len(pub) + 1)
        /\ tally' = Tally(tally, r.pub, Len(pub) + 1)
        /\ first_started' = RecordStarts(first_started, r.pub)
  /\ pc' = "predict"
  /\ mi' = 1
  /\ UNCHANGED << iha_call, offered, edge, env, t, jobs, completed_jobs, THRESHOLD, chosen_threshold, prob, has_scipy,
                  cs0, work0, last_failed, last_preempted, noise_used, quiet_at_start, target_class,
                  queues_before >>

\* machine processing loop: self._maybe_predict_failure(m)
Predict ==
  /\ pc = "predict"
  /\ \E p \in Probs :
       LET r == _maybe_predict_failure(mi, mach, class_queues, pub, jobs, t, p, THRESHOLD)
       IN /\ mach' = r.mach
          /\ class_queues' = r.class_queues
          /\ pub' = r.pub
          /\ job_events' = RecordEvents(job_events, r.pub, Len(pub) + 1)
          /\ tally' = Tally(tally, r.pub, Len(pub) + 1)
          /\ prob' = IF mach[mi].repairing_left > 0 \/ mach[mi].busy_with = NoJob
                     THEN NotCalled ELSE p
          /\ last_preempted' = IF Len(r.pub) > Len(pub)
                               THEN [last_preempted EXCEPT ![mi] = t]
                               ELSE last_preempted
  /\ pc' = "step"
  /\ UNCHANGED << iha_call, offered, edge, env, t, mi, jobs, completed_jobs, THRESHOLD, chosen_threshold, has_scipy,
                  cs0, work0, last_failed, noise_used, quiet_at_start, first_started,
                  target_class, queues_before >>

\* machine processing loop: m.step(), the two publications and the reaction
\* to the event
StepMachine ==
  /\ pc = "step"
  /\ \E nt \in Noise, nv \in Noise :
       LET held == mach[mi].busy_with
           working == mach[mi].repairing_left = 0 /\ held # NoJob
           r == step(mi, mach[mi], IF held # NoJob THEN jobs[held] ELSE NoJobRec, nt, nv)
           ms1 == [mach EXCEPT ![mi] = r.m]
           js1 == IF held # NoJob THEN [jobs EXCEPT ![held] = r.job] ELSE jobs
           pb1 == _publish_job_telemetry(_publish_job_status(pub, t, mi, r.m), t, mi, r.m)
       IN /\ IF working THEN noise_used + nt + nv <= MaxNoise ELSE nt + nv = 0
          /\ noise_used' = noise_used + nt + nv
          /\ mach' = ms1
          /\ jobs' = js1
          /\ \E h \in HandleEvent(mi, r.event, r.job, ms1, class_queues,
                                  completed_jobs, pb1, js1, t, has_scipy) :
                /\ class_queues' = h.class_queues
                /\ completed_jobs' = h.completed_jobs
                /\ pub' = h.pub
                /\ job_events' = RecordEvents(job_events, h.pub, Len(pub) + 1)
                /\ tally' = Tally(tally, h.pub, Len(pub) + 1)
                /\ target_class' = IF h.target = "" THEN target_class ELSE h.target
                /\ queues_before' = IF h.target = "" THEN queues_before ELSE h.before
          /\ last_failed' = IF r.event = "FAILED"
                            THEN [last_failed EXCEPT ![mi] = [tick |-> t, job |-> held]]
                            ELSE last_failed
          /\ last_preempted' = last_preempted
  /\ IF mi < Len(machines)
     THEN mi' = mi + 1 /\ pc' = "predict"
     ELSE mi' = 0 /\ pc' = "end"
  /\ prob' = NotCalled
  /\ UNCHANGED << iha_call, offered, edge, env, t, THRESHOLD, chosen_threshold, has_scipy, cs0, work0, quiet_at_start,
                  first_started >>

\* an end of tick that never raises SystemExit
EndTick_keeps_running ==
  /\ pc = "end"
  /\ pc' = "tick"
  /\ UNCHANGED << iha_call, offered, edge, env, t, mi, mach, jobs, class_queues, completed_jobs, pub,
                  THRESHOLD, chosen_threshold, prob, has_scipy, cs0, work0, last_failed, last_preempted,
                  noise_used, quiet_at_start, job_events, tally, first_started,
                  target_class, queues_before >>

\* tick(), "End of tick checks": SystemExit when all is idle and empty
EndTick ==
  /\ pc = "end"
  /\ LET all_idle == \A i \in M : idle(mach[i])
         queues_empty == \A c \in Classes : Len(class_queues[c]) = 0
     IN pc' = IF all_idle /\ queues_empty THEN "stopped" ELSE "tick"
  /\ UNCHANGED << iha_call, offered, edge, env, t, mi, mach, jobs, class_queues, completed_jobs, pub,
                  THRESHOLD, chosen_threshold, prob, has_scipy, cs0, work0, last_failed, last_preempted,
                  noise_used, quiet_at_start, job_events, tally, first_started,
                  target_class, queues_before >>

Next == TickStart \/ Assign \/ Predict \/ StepMachine \/ EndTick

Spec == Init /\ [][Next]_vars

\* run() has ended: SystemExit was raised, or max_ticks ticks were run
Halted == pc = "stopped" \/ (pc = "tick" /\ t = MaxTick)

\* the position in tick() moves on, as it does in every step of the kernel
Proceed == ~Halted /\ pc' \in {"tick", "assign", "predict", "step", "end", "stopped"}

\* run(): the for loop calls tick() again as long as ticks are left and no
\* SystemExit was raised, and every tick() runs to its end
SpecLive == Init /\ [][Next]_vars /\ WF_pc(Proceed)

\* ----------------------------------------- a sink whose publish raises
\* self.client.publish raises inside tick(): no publisher of the kernel and
\* no caller up to run() handles the exception (run() handles SystemExit
\* only), so the tick is abandoned where it stands and run() ends after the
\* disconnect of its finally block.  The publication that raises is the
\* first STARTED of the assignment phase, the PREDICTION of the hook, or,
\* in the visit of a machine after step(), the status, the telemetry or the
\* event.
PublishRaises ==
  /\ pc' = "crashed"
  /\ \/ /\ pc = "assign"
        /\ \E i \in M :
             /\ idle(mach[i]) /\ class_queues[machines[i].class_name] # << >>
             /\ \A o \in 1 .. (i - 1) :
                  ~(idle(mach[o]) /\ class_queues[machines[o].class_name] # << >>)
             /\ LET cls == machines[i].class_name
                    r == assign(i, mach[i], jobs[Head(class_queues[cls])])
                IN /\ r.ok
                   /\ mach' = [mach EXCEPT ![i] = r.m]
                   /\ class_queues' = [class_queues EXCEPT ![cls] = Tail(@)]
        /\ UNCHANGED << iha_call, offered, edge, env, t, mi, jobs, completed_jobs, pub, prob, last_failed, last_preempted,
                        noise_used, job_events, tally >>
     \/ /\ pc = "predict"
        /\ mach[mi].repairing_left = 0 /\ mach[mi].busy_with # NoJob
        /\ \E p \in Probs : p >= THRESHOLD /\ near_limit(mi, mach[mi]) /\ prob' = p
        /\ UNCHANGED << iha_call, offered, edge, env, t, mi, mach, jobs, class_queues, completed_jobs, pub,
                        last_failed, last_preempted, noise_used, job_events, tally >>
     \/ /\ pc = "step"
        /\ \E nt \in Noise, nv \in Noise, at \in {"status", "telemetry", "event"} :
             LET held == mach[mi].busy_with
                 working == mach[mi].repairing_left = 0 /\ held # NoJob
                 r == step(mi, mach[mi], IF held # NoJob THEN jobs[held] ELSE NoJobRec, nt, nv)
                 ms1 == [mach EXCEPT ![mi] = r.m]
                 js1 == IF held # NoJob THEN [jobs EXCEPT ![held] = r.job] ELSE jobs
                 pb1 == _publish_job_status(pub, t, mi, r.m)
                 pb2 == _publish_job_telemetry(pb1, t, mi, r.m)
             IN /\ IF working THEN noise_used + nt + nv <= MaxNoise ELSE nt + nv = 0
                /\ noise_used' = noise_used + nt + nv
                /\ mach' = ms1
                /\ jobs' = js1
                /\ at = "event" => r.event # "None"
                /\ pub' = IF at = "status" THEN pub ELSE IF at = "telemetry" THEN pb1 ELSE pb2
                /\ class_queues' = IF at = "event" /\ r.event = "FAILED"
                                   THEN _enqueue_current_step_front(class_queues, r.job)
                                   ELSE class_queues
                /\ completed_jobs' = IF at = "event" /\ r.event = "COMPLETED"
                                     THEN completed_jobs \cup {r.job.job_id}
                                     ELSE completed_jobs
                /\ last_failed' = IF r.event = "FAILED"
                                  THEN [last_failed EXCEPT ![mi] = [tick |-> t, job |-> held]]
                                  ELSE last_failed
                /\ last_preempted' = last_preempted
        /\ UNCHANGED << iha_call, offered, edge, env, t, mi, prob, job_events, tally >>
  /\ UNCHANGED << THRESHOLD, chosen_threshold, has_scipy, cs0, work0, quiet_at_start,
                  first_started, target_class, queues_before >>

FaultyNext == Next \/ PublishRaises

SpecFaulty == Init /\ [][FaultyNext]_vars

\* ------------------------------------- the re-plan taken on its own inputs
\* the remaining ticks a waiting job's step may have, and the temperature +
\* vibration a machine may show, when _run_iha_scheduler is called
IhaRems == {1, 3, 5}
IhaLoads == {10, 80}

\* every order the jobs of S can wait in
Orderings(S) ==
  {q \in [1 .. Cardinality(S) -> S] : \A x, y \in DOMAIN q : q[x] = q[y] => x = y}

\* a kernel whose jobs all wait, each for one step of some class with some
\* remaining ticks, in any queue order, before machines of any workload
IhaInit ==
  /\ t = 0
  /\ pc = "iha"
  /\ mi = 0
  /\ \E load \in [M -> IhaLoads] :
       mach = [i \in M |-> [NewMachine(i) EXCEPT !.temperature = load[i], !.vibration = 0]]
  /\ \E cl \in [JobIds -> Classes], rm \in [JobIds -> IhaRems] :
       jobs = [id \in JobIds |->
                 make_random(id, [temp_inc |-> 0, vib_inc |-> 0, reduction |-> 50,
                                  steps |-> << MkStep(cl[id], rm[id], 2) >>])]
  /\ \E f \in [Classes -> UNION {Orderings({id \in JobIds : required_class(jobs[id]) = c}) :
                                   c \in Classes}] :
       /\ \A c \in Classes : f[c] \in Orderings({id \in JobIds : required_class(jobs[id]) = c})
       /\ class_queues = f
  /\ completed_jobs = {}
  /\ pub = << >>
  /\ chosen_threshold = 0
  /\ THRESHOLD = EffectiveThreshold(chosen_threshold)
  /\ prob = NotCalled
  /\ has_scipy \in BOOLEAN
  /\ cs0 = [id \in JobIds |-> 0]
  /\ work0 = [id \in JobIds |-> SumRem(jobs[id].steps, Len(jobs[id].steps))]
  /\ last_failed = [i \in M |-> [tick |-> 0, job |-> NoJob]]
  /\ last_preempted = [i \in M |-> 0]
  /\ noise_used = 0
  /\ target_class \in Classes \cup {"ALL"}
  /\ queues_before = class_queues
  /\ quiet_at_start = FALSE
  /\ job_events = [id \in JobIds |-> << >>]
  /\ tally = [id \in JobIds |-> [open |-> 0, step_done |-> 0, completed |-> 0]]
  /\ first_started = [id \in JobIds |-> 0]
  /\ offered = NoJob
  /\ edge = NewEdge
  /\ env = NoEnv
  /\ iha_call = NoCall

\* one call _run_iha_scheduler(target_class)
IhaReplan ==
  /\ pc = "iha"
  /\ class_queues' \in _run_iha_scheduler(target_class, class_queues, mach, jobs, has_scipy)
  /\ queues_before' = class_queues
  /\ pc' = "iha_once"
  /\ UNCHANGED << iha_call, offered, edge, env, t, mi, mach, jobs, completed_jobs, pub, THRESHOLD, chosen_threshold,
                  prob, has_scipy, cs0, work0, last_failed, last_preempted, noise_used, quiet_at_start,
                  job_events, tally, first_started, target_class >>

\* the same call made again, nothing else having run in between;
\* queues_before keeps the queues the first call found
IhaReplanAgain ==
  /\ pc = "iha_once"
  /\ class_queues' \in _run_iha_scheduler(target_class, class_queues, mach, jobs, has_scipy)
  /\ pc' = "iha_twice"
  /\ UNCHANGED << iha_call, offered, edge, env, t, mi, mach, jobs, completed_jobs, pub, THRESHOLD, chosen_threshold,
                  prob, has_scipy, cs0, work0, last_failed, last_preempted, noise_used, quiet_at_start,
                  job_events, tally, first_started, target_class, queues_before >>

IhaNext == IhaReplan \/ IhaReplanAgain

SpecIHA == IhaInit /\ [][IhaNext]_vars

\* ------------------------------------ run_iha, taken on its own inputs
\* the lists of distinct elements of S, of any length
Lists(S) == UNION {Orderings(T) : T \in SUBSET S}

\* jobs with any remaining ticks and machines with any workload, and a call
\* run_iha(jobs, machines) about to be made with any list of the jobs and
\* any list of the machines, either of which may be empty
RunIhaInit ==
  /\ t = 0
  /\ pc = "run_iha"
  /\ mi = 0
  /\ \E load \in [M -> IhaLoads] :
       mach = [i \in M |-> [NewMachine(i) EXCEPT !.temperature = load[i], !.vibration = 0]]
  /\ \E rm \in [JobIds -> IhaRems] :
       jobs = [id \in JobIds |->
                 make_random(id, [temp_inc |-> 0, vib_inc |-> 0, reduction |-> 50,
                                  steps |-> << MkStep("A", rm[id], 2) >>])]
  /\ \E jl \in Lists(JobIds), ml \in Lists(M) :
       iha_call = [job_list |-> jl, mach_list |-> ml, assignments |-> << >>]
  /\ class_queues = [c \in Classes |-> << >>]
  /\ completed_jobs = {}
  /\ pub = << >>
  /\ chosen_threshold = 0
  /\ THRESHOLD = EffectiveThreshold(chosen_threshold)
  /\ prob = NotCalled
  /\ has_scipy \in BOOLEAN
  /\ cs0 = [id \in JobIds |-> 0]
  /\ work0 = [id \in JobIds |-> SumRem(jobs[id].steps, Len(jobs[id].steps))]
  /\ last_failed = [i \in M |-> [tick |-> 0, job |-> NoJob]]
  /\ last_preempted = [i \in M |-> 0]
  /\ noise_used = 0
  /\ target_class = ""
  /\ queues_before = class_queues
  /\ quiet_at_start = FALSE
  /\ job_events = [id \in JobIds |-> << >>]
  /\ tally = [id \in JobIds |-> [open |-> 0, step_done |-> 0, completed |-> 0]]
  /\ first_started = [id \in JobIds |-> 0]
  /\ offered = NoJob
  /\ edge = NewEdge
  /\ env = NoEnv

\* what a call of run_iha leaves alone
RunIhaFrame ==
  UNCHANGED << t, mi, mach, jobs, class_queues, completed_jobs, pub, THRESHOLD,
               chosen_threshold, prob, has_scipy, cs0, work0, last_failed,
               last_preempted, noise_used, quiet_at_start, job_events, tally,
               first_started, target_class, queues_before, offered, edge, env >>

\* the (job, machine) pairs run_iha returns for the index pairs of the
\* solver: assignments.append((job_list[r], mach_list[c]))
Assignments(c, pairs) ==
  [x \in 1 .. Len(pairs) |-> << c.job_list[pairs[x][1]], c.mach_list[pairs[x][2]] >>]

\* the arguments of the call as run_iha reads them: remaining_ticks_on_step
\* of each job, temperature + vibration of each machine
CallRems(c) == [x \in 1 .. Len(c.job_list) |-> remaining_ticks_on_step(jobs[c.job_list[x]])]
CallWorks(c) ==
  [x \in 1 .. Len(c.mach_list) |->
     mach[c.mach_list[x]].temperature + mach[c.mach_list[x]].vibration]

\* the call run_iha(job_list, mach_list) returns
RunIha ==
  /\ pc = "run_iha"
  /\ \E a \in run_iha(CallRems(iha_call), CallWorks(iha_call), IHA_W1, IHA_W2, has_scipy) :
       iha_call' = [iha_call EXCEPT !.assignments = Assignments(iha_call, a)]
  /\ pc' = "returned"
  /\ RunIhaFrame

\* the same call when linear_sum_assignment raises: the except branch takes
\* the greedy fallback, as a build without scipy does
RunIhaSolverRaises ==
  /\ pc = "run_iha"
  /\ has_scipy
  /\ \E a \in run_iha(CallRems(iha_call), CallWorks(iha_call), IHA_W1, IHA_W2, FALSE) :
       iha_call' = [iha_call EXCEPT !.assignments = Assignments(iha_call, a)]
  /\ pc' = "returned_by_fallback"
  /\ RunIhaFrame

RunIhaNext == RunIha \/ RunIhaSolverRaises

SpecRunIha == RunIhaInit /\ [][RunIhaNext]_vars

\* ------------------------ handing out work, taken on its own inputs
\* the ends of REDUCTION_RANGE of jobs.py, in percent
Reductions == {20, 60}

\* the states a machine that holds no job can be in when work is handed
\* out: idle with its readings at base or a band over it (below the
\* thresholds), or under repair with the readings that made it fail
FreeMachineStates(i) ==
  {[NewMachine(i) EXCEPT !.temperature = @ + dt, !.vibration = @ + dv] :
      dt \in {d \in {0, 1} : machines[i].temp_base + d < machines[i].temp_threshold},
      dv \in {d \in {0, 1} : machines[i].vib_base + d < machines[i].vib_threshold}}
  \cup {[NewMachine(i) EXCEPT !.temperature = machines[i].temp_threshold,
                              !.repairing_left = machines[i].repair_time]}

\* the registries of machines that hold no job
FreeMachines ==
  {f \in [M -> UNION {FreeMachineStates(i) : i \in M}] :
     \A i \in M : f[i] \in FreeMachineStates(i)}

\* the jobs of one step each, of any class and reduction
OneStepJobs ==
  {[id \in JobIds |->
      make_random(id, [temp_inc |-> 0, vib_inc |-> 0, reduction |-> rd[id],
                       steps |-> << MkStep(cl[id], 2, 2) >>])] :
     cl \in [JobIds -> Classes], rd \in [JobIds -> Reductions]}

\* the class queues in which every job waits once, filed under any class: a
\* job filed under a class it does not require is the case the refusal
\* branch of _assign_tasks is written for
AnyFiling ==
  UNION {{f \in [Classes -> UNION {Orderings({a \in JobIds : filed[a] = c}) : c \in Classes}] :
            \A c \in Classes : f[c] \in Orderings({a \in JobIds : filed[a] = c})} :
           filed \in [JobIds -> Classes]}

\* either a machine, idle, under repair or busy, about to be offered a job
\* (pc = "asg_call"), or a kernel whose jobs all wait, about to run its
\* assignment phase (pc = "asg")
AsgInit ==
  /\ t = 1
  /\ edge = NewEdge
  /\ env = NoEnv
  /\ iha_call = NoCall
  /\ jobs \in OneStepJobs
  /\ \/ /\ pc = "asg_call"
        /\ mi \in M
        /\ offered \in JobIds
        /\ \E s \in FreeMachineStates(mi) \cup
                      {[NewMachine(mi) EXCEPT !.busy_with = a] : a \in JobIds \ {offered}} :
             mach = [i \in M |-> IF i = mi THEN s ELSE NewMachine(i)]
        /\ class_queues = [c \in Classes |-> << >>]
     \/ /\ pc = "asg"
        /\ mi = 0
        /\ offered = NoJob
        /\ mach \in FreeMachines
        /\ class_queues \in AnyFiling
        /\ \A id \in JobIds : jobs[id].reduction = SetMin(Reductions)
  /\ completed_jobs = {}
  /\ pub = << >>
  /\ chosen_threshold = 0
  /\ THRESHOLD = EffectiveThreshold(chosen_threshold)
  /\ prob = NotCalled
  /\ has_scipy = FALSE
  /\ cs0 = [id \in JobIds |-> 0]
  /\ work0 = [id \in JobIds |-> SumRem(jobs[id].steps, Len(jobs[id].steps))]
  /\ last_failed = [i \in M |-> [tick |-> 0, job |-> NoJob]]
  /\ last_preempted = [i \in M |-> 0]
  /\ noise_used = 0
  /\ target_class = ""
  /\ queues_before = class_queues
  /\ quiet_at_start = FALSE
  /\ job_events = [id \in JobIds |-> << >>]
  /\ tally = [id \in JobIds |-> [open |-> 0, step_done |-> 0, completed |-> 0]]
  /\ first_started = [id \in JobIds |-> 0]

\* one call mach[mi].assign(jobs[offered]); pc tells what it returned
AssignCall ==
  /\ pc = "asg_call"
  /\ LET r == assign(mi, mach[mi], jobs[offered])
     IN /\ mach' = [mach EXCEPT ![mi] = r.m]
        /\ pc' = IF r.ok THEN "assigned" ELSE "refused"
  /\ UNCHANGED << iha_call, offered, edge, env, t, mi, jobs, class_queues, completed_jobs, pub, THRESHOLD,
                  chosen_threshold, prob, has_scipy, cs0, work0, last_failed, last_preempted, noise_used,
                  quiet_at_start, job_events, tally, first_started, target_class, queues_before >>

\* one call _assign_tasks()
AssignPhase ==
  /\ pc = "asg"
  /\ LET r == _assign_tasks(mach, class_queues, pub, jobs, t)
     IN /\ mach' = r.mach
        /\ class_queues' = r.class_queues
        /\ pub' = r.pub
        /\ job_events' = RecordEvents(job_events, r.pub, Len(pub) + 1)
        /\ tally' = Tally(tally, r.pub, Len(pub) + 1)
        /\ first_started' = RecordStarts(first_started, r.pub)
  /\ pc' = "asg_done"
  /\ UNCHANGED << iha_call, offered, edge, env, t, mi, jobs, completed_jobs, THRESHOLD, chosen_threshold, prob,
                  has_scipy, cs0, work0, last_failed, last_preempted, noise_used, quiet_at_start, target_class,
                  queues_before >>

AsgNext == AssignCall \/ AssignPhase

SpecAssign == AsgInit /\ [][AsgNext]_vars

\* ------------------------------------- the kernel with an edge publisher
\* the publications of the kernel that the edge publisher has not read yet
Unread ==
  IF edge.tick = t THEN SubSeq(pub, edge.pos + 1, Len(pub)) ELSE pub

\* the broker has delivered everything published so far
EdgeCaughtUp == Unread = << >>

\* the kernel takes a step once all it has published is delivered
KernelStep == EdgeCaughtUp /\ edge.on /\ Next

\* the broker delivers the next publication: on_message
EdgeOnMessage ==
  /\ edge.on
  /\ Unread # << >>
  /\ edge' = [on_message(edge, Head(Unread)) EXCEPT
               !.tick = t, !.pos = IF edge.tick = t THEN edge.pos + 1 ELSE 1]
  /\ UNCHANGED << t, pc, mi, mach, jobs, class_queues, completed_jobs, pub,
                  THRESHOLD, chosen_threshold, prob, has_scipy, cs0, work0, last_failed, last_preempted,
                  noise_used, quiet_at_start, job_events, tally, first_started,
                  target_class, queues_before, iha_call, offered, env >>

\* the operator stops the edge publisher after the kernel has ended its run
EdgeShutdown ==
  /\ edge.on
  /\ EdgeCaughtUp
  /\ pc = "stopped" \/ (pc = "tick" /\ t = MaxTick)
  /\ edge' = [FlushAll(edge, 1) EXCEPT !.on = FALSE]
  /\ UNCHANGED << t, pc, mi, mach, jobs, class_queues, completed_jobs, pub,
                  THRESHOLD, chosen_threshold, prob, has_scipy, cs0, work0, last_failed, last_preempted,
                  noise_used, quiet_at_start, job_events, tally, first_started,
                  target_class, queues_before, iha_call, offered, env >>

EdgeNext == KernelStep \/ EdgeOnMessage \/ EdgeShutdown

SpecEdge == Init /\ [][EdgeNext]_vars

\* ------------------------------------------- the discrete-event driver
\* main() of simpy_simulation.py: the workspace of __init__ in a fresh
\* environment; t is env.now and pub holds the publications of the minute
SimPyInit ==
  /\ t = 0
  /\ pc = "simpy"
  /\ mi = 0
  /\ mach = [i \in M |-> NewMachine(i)]
  /\ jobs = [id \in JobIds |-> make_random(id, JobCatalog[((id - 1) % Len(JobCatalog)) + 1])]
  /\ class_queues = SeedQueues(jobs)
  /\ completed_jobs = {}
  /\ pub = << >>
  /\ chosen_threshold \in MetaThresholds
  /\ THRESHOLD = EffectiveThreshold(chosen_threshold)
  /\ prob = NotCalled
  /\ has_scipy \in BOOLEAN
  /\ cs0 = [id \in JobIds |-> 0]
  /\ work0 = [id \in JobIds |-> SumRem(jobs[id].steps, Len(jobs[id].steps))]
  /\ last_failed = [i \in M |-> [tick |-> 0, job |-> NoJob]]
  /\ last_preempted = [i \in M |-> 0]
  /\ noise_used = 0
  /\ target_class = ""
  /\ queues_before = class_queues
  /\ quiet_at_start = FALSE
  /\ job_events = [id \in JobIds |-> << >>]
  /\ tally = [id \in JobIds |-> [open |-> 0, step_done |-> 0, completed |-> 0]]
  /\ first_started = [id \in JobIds |-> 0]
  /\ offered = NoJob
  /\ edge = NewEdge
  /\ env = NewEnv
  /\ iha_call = NoCall

\* env.run() has an event to process, within the minutes observed
Runnable(kind) ==
  /\ pc = "simpy"
  /\ env.queue # {}
  /\ NextEvent(env).time <= MaxTick
  /\ NextEvent(env).proc.kind = kind

\* what the minute of the event e has published so far
PubAt(e) == IF e.time > t THEN << >> ELSE pub

\* _assigner_loop resumes: one pass over the machines, then a timeout
SimAssigner ==
  /\ Runnable("assigner")
  /\ LET e == NextEvent(env)
         r == _assign_tasks(mach, class_queues, PubAt(e), jobs, e.time)
     IN /\ t' = e.time
        /\ mach' = r.mach
        /\ class_queues' = r.class_queues
        /\ pub' = r.pub
        /\ job_events' = RecordEvents(job_events, r.pub, Len(PubAt(e)) + 1)
        /\ tally' = Tally(tally, r.pub, Len(PubAt(e)) + 1)
        /\ first_started' = RecordStarts(first_started, r.pub)
        /\ env' = Resume(env, e, t, Proc("assigner", 0), ASSIGN_PULSE_MIN)
  /\ UNCHANGED << iha_call, offered, edge, pc, mi, jobs, completed_jobs, THRESHOLD, chosen_threshold,
                  prob, has_scipy, cs0, work0, last_failed, last_preempted, noise_used, quiet_at_start,
                  target_class, queues_before >>

\* _iha_pulse resumes: at its start it only waits; after a wait it re-plans
\* every class unless all is done, and waits again
SimIhaPulse ==
  /\ Runnable("iha")
  /\ LET e == NextEvent(env)
     IN /\ t' = e.time
        /\ pub' = PubAt(e)
        /\ IF e.urgent
           THEN /\ class_queues' = class_queues
                /\ env' = Resume(env, e, t, Proc("iha_start", 0), IHA_INTERVAL_MIN)
           ELSE /\ IF _all_done(mach, class_queues)
                   THEN class_queues' = class_queues
                   ELSE class_queues' \in
                          _run_iha_scheduler("ALL", class_queues, mach, jobs, has_scipy)
                /\ env' = Resume(env, e, t, Proc("iha", 0), IHA_INTERVAL_MIN)
  /\ UNCHANGED << iha_call, offered, edge, pc, mi, mach, jobs, completed_jobs, THRESHOLD,
                  chosen_threshold, prob, has_scipy, cs0, work0, last_failed, last_preempted, noise_used,
                  quiet_at_start, job_events, tally, first_started, target_class,
                  queues_before >>

\* _idle_shutdown_monitor resumes: env.exit() once nothing has been left to
\* do for IDLE_GRACE_MIN minutes
SimMonitor ==
  /\ Runnable("monitor")
  /\ LET e == NextEvent(env)
         resumed == Resume(env, e, t, Proc("monitor", 0), 1)
     IN /\ t' = e.time
        /\ pub' = PubAt(e)
        /\ IF _all_done(mach, class_queues)
           THEN IF env.idle_start = NoTime
                THEN pc' = pc /\ env' = [resumed EXCEPT !.idle_start = e.time]
                ELSE IF e.time - env.idle_start >= IDLE_GRACE_MIN
                THEN pc' = "stopped" /\ env' = [env EXCEPT !.queue = @ \ {e}]
                ELSE pc' = pc /\ env' = resumed
           ELSE pc' = pc /\ env' = [resumed EXCEPT !.idle_start = NoTime]
  /\ UNCHANGED << iha_call, offered, edge, mi, mach, jobs, class_queues, completed_jobs, THRESHOLD,
                  chosen_threshold, prob, has_scipy, cs0, work0, last_failed, last_preempted, noise_used,
                  quiet_at_start, job_events, tally, first_started, target_class,
                  queues_before >>

\* _machine_driver of one machine resumes: the predictive check, one
\* step(), status and telemetry, the reaction to the event, then a timeout
SimMachineDriver ==
  /\ Runnable("machine")
  /\ LET e == NextEvent(env)
         i == e.proc.m
     IN \E p \in Probs, nt \in Noise, nv \in Noise :
          LET h == _maybe_predict_failure(i, mach, class_queues, PubAt(e), jobs,
                                          e.time, p, THRESHOLD)
              held == h.mach[i].busy_with
              working == h.mach[i].repairing_left = 0 /\ held # NoJob
              r == step(i, h.mach[i], IF held # NoJob THEN jobs[held] ELSE NoJobRec, nt, nv)
              ms1 == [h.mach EXCEPT ![i] = r.m]
              js1 == IF held # NoJob THEN [jobs EXCEPT ![held] = r.job] ELSE jobs
              pb1 == _publish_job_telemetry(_publish_job_status(h.pub, e.time, i, r.m),
                                            e.time, i, r.m)
          IN /\ IF working THEN noise_used + nt + nv <= MaxNoise ELSE nt + nv = 0
             /\ noise_used' = noise_used + nt + nv
             /\ t' = e.time
             /\ mi' = i
             /\ mach' = ms1
             /\ jobs' = js1
             /\ \E x \in SimHandleEvent(i, r.event, r.job, ms1, h.class_queues,
                                         completed_jobs, pb1, js1, e.time, has_scipy) :
                  /\ class_queues' = x.class_queues
                  /\ completed_jobs' = x.completed_jobs
                  /\ pub' = x.pub
                  /\ job_events' = RecordEvents(job_events, x.pub, Len(PubAt(e)) + 1)
                  /\ tally' = Tally(tally, x.pub, Len(PubAt(e)) + 1)
             /\ env' = Resume(env, e, t, Proc("machine", i), TELEMETRY_EVERY_MIN)
  /\ UNCHANGED << iha_call, offered, edge, pc, THRESHOLD, chosen_threshold, prob, has_scipy, cs0, work0,
                  last_failed, last_preempted, quiet_at_start, first_started, target_class,
                  queues_before >>

SimPyNext == SimAssigner \/ SimIhaPulse \/ SimMonitor \/ SimMachineDriver

SpecSimPy == SimPyInit /\ [][SimPyNext]_vars

\* ------------------------- the readings of a machine, in physical units
\* temperature and vibration in hundredths of a degree and of a mm/s.
\* The registry rows of A_1, A_2 and B_1 as WorkspaceSimulation.__init__
\* gives them
physical ==
  << [temp_base |-> 4000, temp_threshold |-> 10000, vib_base |-> 200, vib_threshold |-> 1600],
     [temp_base |-> 4100, temp_threshold |-> 8600, vib_base |-> 220, vib_threshold |-> 850],
     [temp_base |-> 5000, temp_threshold |-> 11000, vib_base |-> 400, vib_threshold |-> 1800] >>

\* INTENSITIES of jobs.py: temp_inc and vib_inc of light, moderate, heavy
\* and stress jobs
INTENSITIES ==
  << [temp_inc |-> 300, vib_inc |-> 80], [temp_inc |-> 450, vib_inc |-> 120],
     [temp_inc |-> 550, vib_inc |-> 150], [temp_inc |-> 600, vib_inc |-> 200] >>

\* the ends of random.uniform(-1.0, 1.4) and random.uniform(-0.4, 0.6) of
\* step()
TempNoise == {-100, 140}
VibNoise == {-40, 60}

\* what _maybe_spike adds to a reading, each on a draw of its own: nothing,
\* or the most of random.uniform(2.0, 6.0) and of random.uniform(0.8, 2.0)
TempSpike == {0, 600}
VibSpike == {0, 200}

\* a reading that an idle tick lowers by cool without regard for the base
cooldown_reading_unbounded(r, base, cool) == r - cool

\* _cooldown, for one reading: max(base, reading - cool)
cooldown_reading(r, base, cool) == Max2(base, r - cool)

\* assign, "reduction logic", for one reading: reading - diff * reduction,
\* reduction in percent; the product rounded to a hundredth either way
assign_reading(r, base, reduction) ==
  IF reduction > 0
  THEN {r - ((r - base) * reduction) \div 100, r - ((r - base) * reduction + 99) \div 100}
  ELSE {r}

\* step(), "apply job load + noise" and _maybe_spike, for one reading
load_reading(r, inc, noise, spike) == r + inc + noise + spike

\* a machine with the readings of its physical registry row
PhysicalMachine(i) ==
  [NewMachine(i) EXCEPT !.temperature = physical[i].temp_base,
                        !.vibration = physical[i].vib_base]

\* one machine, mi, new, and for it jobs that take the intensities in turn
\* from any first one, all of one reduction
PhysInit ==
  /\ t = 0
  /\ pc = "phys"
  /\ mi \in M
  /\ mach = [i \in M |-> PhysicalMachine(i)]
  /\ \E first \in 1..Len(INTENSITIES), rd \in Reductions :
       jobs = [id \in JobIds |->
                 make_random(id, [temp_inc |-> INTENSITIES[((first + id - 2) % Len(INTENSITIES)) + 1].temp_inc,
                                  vib_inc |-> INTENSITIES[((first + id - 2) % Len(INTENSITIES)) + 1].vib_inc,
                                  reduction |-> rd,
                                  steps |-> << MkStep(machines[mi].class_name, 2, 2) >>])]
  /\ class_queues = [c \in Classes |-> << >>]
  /\ completed_jobs = {}
  /\ pub = << >>
  /\ chosen_threshold = 0
  /\ THRESHOLD = EffectiveThreshold(chosen_threshold)
  /\ prob = NotCalled
  /\ has_scipy = TRUE
  /\ cs0 = [id \in JobIds |-> 0]
  /\ work0 = [id \in JobIds |-> SumRem(jobs[id].steps, Len(jobs[id].steps))]
  /\ last_failed = [i \in M |-> [tick |-> 0, job |-> NoJob]]
  /\ last_preempted = [i \in M |-> 0]
  /\ noise_used = 0
  /\ target_class = ""
  /\ queues_before = class_queues
  /\ quiet_at_start = FALSE
  /\ job_events = [id \in JobIds |-> << >>]
  /\ tally = [id \in JobIds |-> [open |-> 0, step_done |-> 0, completed |-> 0]]
  /\ first_started = [id \in JobIds |-> 0]
  /\ offered = NoJob
  /\ edge = NewEdge
  /\ env = NoEnv
  /\ iha_call = NoCall

\* the number of steps on the readings that a run takes
MaxPhysSteps == 3

\* a step on the readings counts as one more in t; the rest stays
PhysFrame ==
  /\ t < MaxPhysSteps
  /\ t' = t + 1
  /\ UNCHANGED << pc, mi, jobs, class_queues, completed_jobs, pub, THRESHOLD,
               chosen_threshold, prob, has_scipy, cs0, work0, last_failed,
               last_preempted, noise_used, quiet_at_start, job_events, tally,
               first_started, target_class, queues_before, iha_call, offered, edge, env >>

\* assign(job) on the idle machine
PhysAssign ==
  /\ pc = "phys"
  /\ idle(mach[mi])
  /\ \E id \in JobIds :
       \E nt \in assign_reading(mach[mi].temperature, physical[mi].temp_base,
                                jobs[id].reduction),
          nv \in assign_reading(mach[mi].vibration, physical[mi].vib_base,
                                jobs[id].reduction) :
         mach' = [mach EXCEPT ![mi].temperature = nt, ![mi].vibration = nv,
                              ![mi].busy_with = id]
  /\ PhysFrame

\* step() of the busy machine: load, noise and spike, then FAILED over a
\* threshold, or else a tick of work after which the job stays or is done
PhysWork ==
  /\ pc = "phys"
  /\ mach[mi].repairing_left = 0 /\ mach[mi].busy_with # NoJob
  /\ \E nt \in TempNoise, nv \in VibNoise, st \in TempSpike, sv \in VibSpike,
        finished \in BOOLEAN :
       LET j == jobs[mach[mi].busy_with]
           temp == load_reading(mach[mi].temperature, j.temp_inc, nt, st)
           vib == load_reading(mach[mi].vibration, j.vib_inc, nv, sv)
           over == temp >= physical[mi].temp_threshold \/ vib >= physical[mi].vib_threshold
       IN mach' = [mach EXCEPT
                     ![mi].temperature = temp,
                     ![mi].vibration = vib,
                     ![mi].busy_with = IF over \/ finished THEN NoJob ELSE @,
                     ![mi].repairing_left = IF over THEN machines[mi].repair_time ELSE @]
  /\ PhysFrame

\* the hook preempts the busy machine: the job leaves, the repair starts,
\* the readings stay
PhysPreempt ==
  /\ pc = "phys"
  /\ mach[mi].repairing_left = 0 /\ mach[mi].busy_with # NoJob
  /\ mach' = [mach EXCEPT ![mi].busy_with = NoJob,
                          ![mi].repairing_left = machines[mi].repair_time]
  /\ PhysFrame

\* step() of the machine under repair
PhysRepair ==
  /\ pc = "phys"
  /\ mach[mi].repairing_left > 0
  /\ mach' = [mach EXCEPT
                ![mi].repairing_left = @ - 1,
                ![mi].temperature = IF mach[mi].repairing_left = 1
                                    THEN physical[mi].temp_base ELSE @,
                ![mi].vibration = IF mach[mi].repairing_left = 1
                                  THEN physical[mi].vib_base ELSE @]
  /\ PhysFrame

\* step() of the idle machine: _cooldown
PhysCooldown ==
  /\ pc = "phys"
  /\ idle(mach[mi])
  /\ mach' = [mach EXCEPT
                ![mi].temperature = cooldown_reading(@, physical[mi].temp_base, COOL_TEMP_C),
                ![mi].vibration = cooldown_reading(@, physical[mi].vib_base, COOL_VIB_C)]
  /\ PhysFrame

PhysNext == PhysAssign \/ PhysWork \/ PhysPreempt \/ PhysRepair \/ PhysCooldown

SpecPhysics == PhysInit /\ [][PhysNext]_vars

\* ------------------------------------------------------------ properties
\* the positions of pub that hold a job-shop event of the given type
EventsOf(type) == {k \in 1 .. Len(pub) : pub[k].type = type}

\* a tick boundary: no tick is in progress
AtTickBoundary == pc \in {"tick", "stopped"}

\* how many times job id occurs in class queues, on machines and in the
\* completed set
QueuePlaces(id) ==
  UNION {{<< c, x >> : x \in {y \in 1 .. Len(class_queues[c]) : class_queues[c][y] = id}} :
           c \in Classes}

MachinePlaces(id) == {i \in M : mach[i].busy_with = id}

Places(id) ==
  Cardinality(QueuePlaces(id)) + Cardinality(MachinePlaces(id))
    + (IF id \in completed_jobs THEN 1 ELSE 0)

\* C1: at every tick boundary every job is in exactly one place: once in one
\* class queue, or the busy_with of one machine, or in the completed set.
C1_JobInExactlyOnePlace ==
  AtTickBoundary => \A id \in JobIds : Places(id) = 1

\* a boundary after a tick that requeued a job to the front, with one job
\* waiting, one completed
C1_Witness ==
  /\ pc = "tick"
  /\ EventsOf("FAILED") \cup EventsOf("PREDICTION") # {}
  /\ completed_jobs # {}
  /\ \E id \in JobIds : QueuePlaces(id) # {}

\* C2: every machine is in exactly one of busy, repairing, idle; it never
\* holds a job while repairing_left > 0.
C2_MachineInOneState ==
  \A i \in M :
    LET busy == mach[i].busy_with # NoJob
        repairing == mach[i].repairing_left > 0
    IN /\ ~(busy /\ repairing)
       /\ idle(mach[i]) <=> (~busy /\ ~repairing)
       /\ mach[i].repairing_left >= 0

\* right after a predictive preemption of the machine being visited
C2_Witness ==
  /\ pc = "step"
  /\ pub # << >>
  /\ pub[Len(pub)].type = "PREDICTION"
  /\ pub[Len(pub)].machine = mi
  /\ mach[mi].repairing_left > 0
  /\ mach[mi].busy_with = NoJob

\* C3: every job in the class queue keyed c is not done and its
\* required_class is c.
C3_QueuedJobsBelong ==
  \A c \in Classes : \A x \in 1 .. Len(class_queues[c]) :
    LET j == jobs[class_queues[c][x]]
    IN /\ j.current_step < Len(j.steps)
       /\ j.steps[j.current_step + 1].cls = c

\* a queue holding a job that came from STEP_DONE behind one pushed to the
\* front after FAILED or PREDICTION
C3_Witness ==
  \E c \in Classes :
    /\ Len(class_queues[c]) >= 2
    /\ \E x \in 1 .. Len(class_queues[c]) : jobs[class_queues[c][x]].current_step >= 1
    /\ \E k \in EventsOf("FAILED") \cup EventsOf("PREDICTION") :
          pub[k].job_id \in {class_queues[c][x] : x \in 1 .. Len(class_queues[c])}

\* the job-shop events a machine's visit or the assignment phase publishes
JobShopEvents == {"STARTED", "PREDICTION", "FAILED", "STEP_DONE", "COMPLETED"}

\* C4: for each machine in each tick, every job-shop event that concerns the
\* machine is published before the machine's status snapshot, and the status
\* snapshot before its telemetry sample.
C4_EventsBeforeStatusBeforeTelemetry ==
  \A k \in 1 .. Len(pub), s \in 1 .. Len(pub) :
    pub[k].machine = pub[s].machine =>
      /\ (pub[k].type \in JobShopEvents /\ pub[s].type = "status") => k < s
      /\ (pub[k].type = "status" /\ pub[s].type = "telemetry") => k < s

\* whether job id occurs exactly once in queue c of qs, on no machine of ms
\* and not in the completed set
WaitsOnceIn(qs, ms, c, id) ==
  /\ Cardinality({y \in 1 .. Len(qs[c]) : qs[c][y] = id}) = 1
  /\ \A c2 \in Classes \ {c} : \A y \in 1 .. Len(qs[c2]) : qs[c2][y] # id
  /\ \A i \in M : ms[i].busy_with # id
  /\ id \notin completed_jobs

\* the step from the end of one tick to the start of the next (before its
\* assignment phase)
NextTickStarts == pc = "tick" /\ pc' = "assign"

\* C5 as stated: if m emits FAILED for j in tick t, then at the start of tick
\* t+1 j is the first element of the queue of m's class.
C5_FailedJobIsHead ==
  [][NextTickStarts =>
       \A k \in EventsOf("FAILED") :
         LET q == class_queues'[machines[pub[k].machine].class_name]
         IN q # << >> /\ Head(q) = pub[k].job_id]_vars

\* C5 amended: if m emits FAILED for j in tick t, then at the start of tick
\* t+1 j waits exactly once in the queue of m's class and nowhere else; the
\* re-plan that follows the push decides its position.
C5_FailedJobWaitsInClassQueue ==
  [][NextTickStarts =>
       \A k \in EventsOf("FAILED") :
         WaitsOnceIn(class_queues', mach', machines[pub[k].machine].class_name,
                     pub[k].job_id)]_vars

\* the end of a tick whose FAILED job waits in its queue behind another job
C5_Witness ==
  /\ pc = "tick"
  /\ \E k \in EventsOf("FAILED") :
       LET c == machines[pub[k].machine].class_name
       IN /\ WaitsOnceIn(class_queues, mach, c, pub[k].job_id)
          /\ Head(class_queues[c]) # pub[k].job_id

\* C6 as stated: if a machine emits STEP_DONE for j in tick t, then j's
\* current_step is one greater than before the tick, and at the start of tick
\* t+1 j is the last element of the queue of its new required_class.
C6_StepDoneJobIsTail ==
  [][NextTickStarts =>
       \A k \in EventsOf("STEP_DONE") :
         LET j == jobs[pub[k].job_id]
             q == class_queues'[j.steps[j.current_step + 1].cls]
         IN /\ j.current_step = cs0[pub[k].job_id] + 1
            /\ q # << >>
            /\ q[Len(q)] = pub[k].job_id]_vars

\* C6 amended: if a machine emits STEP_DONE for j in tick t, then j's
\* current_step is one greater than before the tick, and at the start of tick
\* t+1 j waits exactly once in the queue of its new required_class and
\* nowhere else; the re-plan that follows the append decides its position.
C6_StepDoneJobWaitsInNextQueue ==
  [][NextTickStarts =>
       \A k \in EventsOf("STEP_DONE") :
         LET j == jobs[pub[k].job_id]
         IN /\ j.current_step = cs0[pub[k].job_id] + 1
            /\ j.current_step < Len(j.steps)
            /\ WaitsOnceIn(class_queues', mach', j.steps[j.current_step + 1].cls,
                           pub[k].job_id)]_vars

\* the end of a tick whose STEP_DONE job waits in its new queue ahead of
\* another job
C6_Witness ==
  /\ pc = "tick"
  /\ \E k \in EventsOf("STEP_DONE") :
       LET j == jobs[pub[k].job_id]
           c == j.steps[j.current_step + 1].cls
       IN /\ j.current_step = cs0[pub[k].job_id] + 1
          /\ WaitsOnceIn(class_queues, mach, c, pub[k].job_id)
          /\ class_queues[c][Len(class_queues[c])] # pub[k].job_id

\* the visit of machine mi by the preemption hook
HookRuns == pc = "predict" /\ pc' = "step"

\* at least one signal of machine i has reached 0.80 of its threshold
SignalNear(i) ==
  \/ 5 * mach[i].temperature >= 4 * machines[i].temp_threshold
  \/ 5 * mach[i].vibration >= 4 * machines[i].vib_threshold

\* C7: when the hook runs for a machine that holds job j and is not
\* repairing, with prob >= THRESHOLD and a signal at 0.80 of its threshold or
\* more, it publishes exactly one PREDICTION (will_fail, risk_score,
\* threshold), takes j off the machine, puts j at the front of the queue of
\* j's required class and sets repairing_left = repair_time.
C7_PreemptionEffects ==
  [][(/\ HookRuns
      /\ mach[mi].busy_with # NoJob
      /\ mach[mi].repairing_left = 0
      /\ prob' >= THRESHOLD
      /\ SignalNear(mi))
     => LET id == mach[mi].busy_with
            j == jobs[id]
            c == j.steps[j.current_step + 1].cls
            e == pub'[Len(pub')]
        IN /\ Len(pub') = Len(pub) + 1
           /\ SubSeq(pub', 1, Len(pub)) = pub
           /\ e.type = "PREDICTION" /\ e.reason = "will_fail"
           /\ e.machine = mi /\ e.job_id = id /\ e.timestamp = t
           /\ e.risk_score = prob' /\ e.threshold = THRESHOLD
           /\ mach' = [mach EXCEPT ![mi].busy_with = NoJob,
                                   ![mi].repairing_left = machines[mi].repair_time]
           /\ class_queues' = [class_queues EXCEPT ![c] = << id >> \o @]]_vars

\* right after a preemption that put the job in front of a waiting one
C7_Witness ==
  /\ pc = "step"
  /\ prob >= THRESHOLD
  /\ pub # << >>
  /\ pub[Len(pub)].type = "PREDICTION"
  /\ pub[Len(pub)].machine = mi
  /\ mach[mi].repairing_left = machines[mi].repair_time
  /\ Len(class_queues[machines[mi].class_name]) >= 2
  /\ Head(class_queues[machines[mi].class_name]) = pub[Len(pub)].job_id

\* the publications after position k that put a job into queue c
LaterArrivals(k, c) ==
  {x \in k + 1 .. Len(pub) :
     \/ pub[x].type \in {"PREDICTION", "FAILED"} /\ machines[pub[x].machine].class_name = c
     \/ pub[x].type = "STEP_DONE" /\ pub[x].cls = c}

\* C8 as stated: at the end of a tick in which PREDICTION is emitted for m
\* and j, m is repairing and j is the head of its class queue, whatever the
\* other machines of the class do later in the tick.
C8_PreemptedJobIsHead ==
  pc = "tick" =>
    \A k \in EventsOf("PREDICTION") :
      LET q == class_queues[machines[pub[k].machine].class_name]
      IN /\ mach[pub[k].machine].repairing_left > 0
         /\ q # << >>
         /\ Head(q) = pub[k].job_id

\* C8 amended: at the end of a tick in which PREDICTION is emitted for m and
\* j, repairing_left of m is repair_time - 1 (the same tick's step() already
\* counted one tick), and j waits exactly once in the queue of m's class; j
\* is its head when no machine visited after m in that tick put a job into
\* that queue (PREDICTION or FAILED on a machine of the class, STEP_DONE of a
\* job whose next class it is).
C8_PreemptedJobHeadUnlessOvertaken ==
  pc = "tick" =>
    \A k \in EventsOf("PREDICTION") :
      LET c == machines[pub[k].machine].class_name
      IN /\ mach[pub[k].machine].repairing_left = machines[pub[k].machine].repair_time - 1
         /\ WaitsOnceIn(class_queues, mach, c, pub[k].job_id)
         /\ LaterArrivals(k, c) = {} => Head(class_queues[c]) = pub[k].job_id

\* the end of a tick in which a preempted job was overtaken in its queue
C8_Witness ==
  /\ pc = "tick"
  /\ \E k \in EventsOf("PREDICTION") :
       LET c == machines[pub[k].machine].class_name
       IN /\ LaterArrivals(k, c) # {}
          /\ Head(class_queues[c]) # pub[k].job_id
          /\ mach[pub[k].machine].repairing_left = machines[pub[k].machine].repair_time - 1

\* C9: the hook does nothing (no event, machines and queues unchanged) when
\* the machine is repairing or holds no job, or prob < THRESHOLD, or no signal
\* is at 0.80 of its threshold; THRESHOLD is max(model-provided, 0.32), so no
\* preemption happens with prob < 0.32.
C9_HookFrame ==
  [][HookRuns =>
       /\ (\/ mach[mi].repairing_left > 0
           \/ mach[mi].busy_with = NoJob
           \/ prob' < THRESHOLD
           \/ ~SignalNear(mi))
          => UNCHANGED << iha_call, offered, edge, env, mach, class_queues, pub, jobs, completed_jobs >>
       /\ LET provided == IF chosen_threshold = 0 THEN DEFAULT_THRESHOLD
                          ELSE chosen_threshold
          IN THRESHOLD = IF provided >= THRESHOLD_FLOOR THEN provided
                         ELSE THRESHOLD_FLOOR
       /\ pub' # pub => prob' >= THRESHOLD_FLOOR]_vars

\* a hot, busy machine left alone because prob is just under the floor that
\* replaced a lower model threshold
C9_Witness ==
  /\ pc = "step"
  /\ chosen_threshold < THRESHOLD_FLOOR /\ chosen_threshold > 0
  /\ prob >= chosen_threshold /\ prob < THRESHOLD
  /\ mach[mi].busy_with # NoJob
  /\ mach[mi].repairing_left = 0
  /\ SignalNear(mi)

\* C10: after m emits FAILED in tick t0, repairing_left is repair_time at the
\* end of t0 and repair_time - (t - t0) at the end of each tick t up to
\* t0 + repair_time: it falls by exactly 1 per tick and stays within
\* [0, repair_time]; m is STARTED on no job in ticks t0+1 .. t0+repair_time;
\* in tick t0+repair_time+1 m is idle when the assignment phase begins and,
\* if it is the first idle machine of its class and a job waits, it is
\* STARTED on the head of the queue.
C10_RepairCountdown ==
  [][/\ \A i \in M :
          LET R == machines[i].repair_time
              t0 == last_failed[i].tick
              c == machines[i].class_name
          IN /\ mach[i].repairing_left \in 0 .. R
             /\ mach'[i].repairing_left \in 0 .. R
             /\ (t0 # 0 /\ pc \in {"end", "tick"} /\ t <= t0 + R)
                  => mach[i].repairing_left = R - (t - t0)
             /\ (t0 # 0 /\ t > t0 /\ t <= t0 + R)
                  => \A k \in EventsOf("STARTED") : pub[k].machine # i
             /\ (t0 # 0 /\ t = t0 + R + 1 /\ pc = "assign")
                  => /\ idle(mach[i])
                     /\ (/\ class_queues[c] # << >>
                         /\ \A i2 \in 1 .. i - 1 :
                               machines[i2].class_name = c => ~idle(mach[i2]))
                        => /\ mach'[i].busy_with = Head(class_queues[c])
                           /\ \E k \in 1 .. Len(pub') :
                                 /\ pub'[k].type = "STARTED"
                                 /\ pub'[k].machine = i
                                 /\ pub'[k].job_id = Head(class_queues[c])
     /\ (pc = "step" /\ mach[mi].repairing_left > 0)
          => mach'[mi].repairing_left = mach[mi].repairing_left - 1]_vars

\* the tick after the repair: the machine has been STARTED again on the job
\* that failed on it
C10_Witness ==
  /\ pc = "predict"
  /\ \E i \in M :
       /\ last_failed[i].tick # 0
       /\ t = last_failed[i].tick + machines[i].repair_time + 1
       /\ mach[i].busy_with = last_failed[i].job
       /\ \E k \in EventsOf("STARTED") :
             pub[k].machine = i /\ pub[k].job_id = last_failed[i].job

\* every machine is idle: no job, not repairing
AllMachinesIdle == \A i \in M : mach[i].busy_with = NoJob /\ mach[i].repairing_left = 0

\* every class queue is empty
AllQueuesEmpty == \A c \in Classes : class_queues[c] = << >>

\* C11: the kernel terminates only with every queue empty and every machine
\* idle, and only after that condition has been confirmed for at least one
\* tick (it already held when the last tick began).
C11_StopsOnlyAfterQuietTick ==
  pc = "stopped" => (AllQueuesEmpty /\ AllMachinesIdle /\ quiet_at_start)

ExpectedEvents(k) ==
  [n \in 1 .. 2 * k |->
     IF n = 2 * k THEN "COMPLETED"
     ELSE IF n % 2 = 1 THEN "STARTED" ELSE "STEP_DONE"]

\* C13: a job of k steps that is never failed or preempted has exactly the
\* events (STARTED, STEP_DONE) k-1 times, then STARTED, COMPLETED, in this
\* order: its events so far are the beginning of that list, and the whole
\* list once it is completed.
C13_EventOrderOfUndisturbedJob ==
  \A id \in JobIds :
    job_events[id] # << "DISTURBED" >> =>
      LET k == Len(jobs[id].steps)
          n == Len(job_events[id])
      IN /\ n <= 2 * k
         /\ job_events[id] = SubSeq(ExpectedEvents(k), 1, n)
         /\ id \in completed_jobs <=> n = 2 * k
         /\ n = 2 * jobs[id].current_step
               + (IF \E i \in M : mach[i].busy_with = id THEN 1 ELSE 0)

\* a three-step job with two consecutive steps of one class has completed
\* undisturbed
C13_Witness ==
  \E id \in JobIds :
    /\ Len(jobs[id].steps) = 3
    /\ jobs[id].steps[1].cls = jobs[id].steps[2].cls
    /\ id \in completed_jobs
    /\ job_events[id] = << "STARTED", "STEP_DONE", "STARTED", "STEP_DONE",
                           "STARTED", "COMPLETED" >>

\* the sum of the step durations job id was created with
TotalDuration(id) ==
  LET c == JobCatalog[((id - 1) % Len(JobCatalog)) + 1]
  IN SumRem(c.steps, Len(c.steps))

\* the ticks of work job id has received
TicksWorked(id) == TotalDuration(id) - SumRem(jobs[id].steps, Len(jobs[id].steps))

\* C14: a job is never COMPLETED before it has received as many ticks of
\* work as the sum of its step durations, one per tick at most, the first in
\* the tick of its first STARTED: the span from the tick of the first STARTED
\* through the tick of COMPLETED is at least that sum.
C14_CompletedOnlyAfterAllWork ==
  /\ \A k \in EventsOf("COMPLETED") :
        LET id == pub[k].job_id
        IN /\ TicksWorked(id) = TotalDuration(id)
           /\ first_started[id] >= 1
           /\ pub[k].timestamp - first_started[id] + 1 >= TotalDuration(id)
  /\ \A id \in JobIds :
        /\ id \in completed_jobs => TicksWorked(id) = TotalDuration(id)
        /\ TicksWorked(id) <= (IF first_started[id] = 0 THEN 0
                               ELSE t - first_started[id] + 1)
        /\ (/\ pc \in {"end", "tick"}
            /\ first_started[id] >= 1
            /\ first_started[id] = t
            /\ \A k \in EventsOf("FAILED") \cup EventsOf("PREDICTION") :
                  pub[k].job_id # id)
           => TicksWorked(id) = 1

\* a job is completed in the last tick its work allows: the span equals the
\* sum of its durations
C14_Witness ==
  \E k \in EventsOf("COMPLETED") :
    /\ pub[k].timestamp - first_started[pub[k].job_id] + 1 = TotalDuration(pub[k].job_id)
    /\ TotalDuration(pub[k].job_id) >= 6

\* C15: every STEP_DONE names as next_required_class the class of the route
\* step after the one just finished, and the job waits in exactly that
\* queue; the last step ends with COMPLETED instead; a completed job is in no
\* queue, on no machine and has no later event.
C15_StepDoneNamesNextClass ==
  /\ \A k \in EventsOf("STEP_DONE") :
        LET id == pub[k].job_id
            j == jobs[id]
        IN /\ cs0[id] + 1 < Len(j.steps)
           /\ j.current_step = cs0[id] + 1
           /\ pub[k].cls = j.steps[cs0[id] + 2].cls
           /\ WaitsOnceIn(class_queues, mach, pub[k].cls, id)
  /\ \A k \in EventsOf("COMPLETED") :
        /\ cs0[pub[k].job_id] + 1 = Len(jobs[pub[k].job_id].steps)
        /\ pub[k].job_id \in completed_jobs
  /\ \A id \in completed_jobs :
        /\ QueuePlaces(id) = {}
        /\ MachinePlaces(id) = {}
        /\ \A k \in 1 .. Len(pub) :
              (pub[k].type \in JobShopEvents /\ pub[k].job_id = id)
                => \E kc \in EventsOf("COMPLETED") : pub[kc].job_id = id /\ k <= kc

\* the end of a tick in which one job completed while another, past a
\* STEP_DONE, waits for its next class
C15_Witness ==
  /\ pc = "tick"
  /\ EventsOf("COMPLETED") # {}
  /\ \E id \in JobIds :
       /\ jobs[id].current_step >= 1
       /\ QueuePlaces(id) # {}

\* the latest _run_iha_scheduler call covered class c
Replanned(c) == target_class \in {"ALL", c}

\* the remaining ticks of the current step of the job at place x of queue q
RemAt(q, x) == remaining_ticks_on_step(jobs[q[x]])

\* C16: after a re-plan of a class queue (weights 0.6 and 0.4) the job at the
\* head of that queue has the least remaining ticks on its current step of
\* all the jobs waiting in it.
C16_HeadHasLeastRemaining ==
  pc \in {"iha_once", "iha_twice"} =>
    \A c \in Classes :
      (Replanned(c) /\ Len(class_queues[c]) > 0) =>
        \A x \in 1 .. Len(class_queues[c]) :
          RemAt(class_queues[c], 1) <= RemAt(class_queues[c], x)

\* the place of job id in queue q
PlaceIn(q, id) == CHOOSE x \in 1 .. Len(q) : q[x] = id

\* queue q2 holds exactly the jobs of queue q, each once
IsPermutation(q, q2) ==
  /\ Len(q2) = Len(q)
  /\ \A x \in 1 .. Len(q) : Cardinality({y \in 1 .. Len(q2) : q2[y] = q[x]}) = 1

\* the pair lists run_iha can return for queue q of class c in this state
PairsFor(c, q) ==
  LET cm == class_machines(c)
  IN run_iha([x \in 1 .. Len(q) |-> RemAt(q, x)],
             [x \in 1 .. Len(cm) |-> mach[cm[x]].temperature + mach[cm[x]].vibration],
             IHA_W1, IHA_W2, has_scipy)

\* q2 is q re-ordered by the pair list a: the paired jobs in the order of a,
\* then the others in the order they had in q
OrderedBy(q, q2, a) ==
  /\ \A x \in 1 .. Len(a) : q2[x] = q[a[x][1]]
  /\ \A x, y \in (Len(a) + 1) .. Len(q2) : x < y => PlaceIn(q, q2[x]) < PlaceIn(q, q2[y])
  /\ a = << >> => q2 = q

ReplanKeepsFrame ==
  pc \in {"iha", "iha_once"} =>
    /\ mach' = mach /\ jobs' = jobs /\ completed_jobs' = completed_jobs
    /\ pub' = pub /\ t' = t
    /\ \A c \in Classes :
         /\ IsPermutation(class_queues[c], class_queues'[c])
         /\ (~Replanned(c) \/ class_queues[c] = << >>) => class_queues'[c] = class_queues[c]
         /\ (target_class = "ALL" /\ class_queues[c] # << >>) =>
              \E a \in PairsFor(c, class_queues[c]) :
                 a # << >> /\ OrderedBy(class_queues[c], class_queues'[c], a)

\* C19: a re-plan for class c changes at most the order of the queue of c:
\* every other queue, every machine, every job, the completed set and the
\* published messages are as before; the global re-plan re-orders every
\* non-empty queue as IHA pairs its jobs and leaves the empty ones untouched.
C19_ReplanFrame == [][ReplanKeepsFrame]_vars

\* a re-plan of one class has run while the queue of another class held two
\* jobs, the longer first, that its own re-plan would have swapped: they are
\* as they were
C19_Witness ==
  /\ pc = "iha_once"
  /\ target_class \in Classes
  /\ \E c \in Classes \ {target_class} :
       /\ Len(class_machines(c)) = 1
       /\ Len(queues_before[c]) = 2
       /\ RemAt(queues_before[c], 1) > RemAt(queues_before[c], 2)
       /\ class_queues[c] = queues_before[c]

\* the pair lists run_iha can return for queue q of class c once the step
\* being taken has updated the machines and the jobs
PairsAfter(c, q) ==
  LET cm == class_machines(c)
  IN run_iha([x \in 1 .. Len(q) |-> remaining_ticks_on_step(jobs'[q[x]])],
             [x \in 1 .. Len(cm) |-> mach'[cm[x]].temperature + mach'[cm[x]].vibration],
             IHA_W1, IHA_W2, has_scipy)

\* the step installs, for class c, queue q re-planned, and leaves the queues
\* of the other classes alone
ReplansOnly(c, q) ==
  /\ target_class' = c
  /\ \E a \in PairsAfter(c, q) : a # << >> /\ OrderedBy(q, class_queues'[c], a)
  /\ \A d \in Classes \ {c} : class_queues'[d] = class_queues[d]

\* the FAILED or STEP_DONE the step being taken publishes, if any
NewEvents(type) == {k \in (Len(pub) + 1) .. Len(pub') : pub'[k].type = type}

\* when the kernel re-plans: the start of a tick re-plans every class exactly
\* when the tick number is 1 modulo IHA_INTERVAL and otherwise leaves the
\* queues alone; the visit of a machine re-plans the class of the machine
\* that FAILED, with the failed job at the head, or the class the job of a
\* STEP_DONE needs next, with that job at the back, and otherwise leaves the
\* queues alone
ReplanTriggers ==
  /\ pc = "tick" =>
       IF (t + 1) % IHA_INTERVAL = 1
       THEN /\ pc' = "assign" /\ target_class' = "ALL"
            /\ \A c \in Classes :
                 IF class_queues[c] = << >> THEN class_queues'[c] = << >>
                 ELSE \E a \in PairsFor(c, class_queues[c]) :
                         a # << >> /\ OrderedBy(class_queues[c], class_queues'[c], a)
       ELSE class_queues' = class_queues /\ target_class' = ""
  /\ pc = "step" =>
       /\ \A k \in NewEvents("FAILED") :
            /\ machines[mi].class_name = pub'[k].cls
            /\ ReplansOnly(pub'[k].cls, << pub'[k].job_id >> \o class_queues[pub'[k].cls])
       /\ \A k \in NewEvents("STEP_DONE") :
            /\ required_class(jobs'[pub'[k].job_id]) = pub'[k].cls
            /\ ReplansOnly(pub'[k].cls, Append(class_queues[pub'[k].cls], pub'[k].job_id))
       /\ (NewEvents("FAILED") \cup NewEvents("STEP_DONE") = {}) =>
            class_queues' = class_queues /\ target_class' = target_class
  /\ pc \in {"assign", "predict", "end"} => target_class' = target_class

PerMachineTypes == {"status", "telemetry", "FAILED", "STEP_DONE", "COMPLETED", "PREDICTION"}

\* the stream of the tick in progress: every publication carries the tick,
\* the per-machine publications are in registry order, no machine has more
\* than one status or telemetry, and when the machine loop is over every
\* machine has exactly one of each
StreamInOrder ==
  /\ \A k \in 1 .. Len(pub) : pub[k].timestamp = t
  /\ \A k, l \in 1 .. Len(pub) :
       (k < l /\ pub[k].type \in PerMachineTypes /\ pub[l].type \in PerMachineTypes)
         => pub[k].machine <= pub[l].machine
  /\ \A i \in M : \A ty \in {"status", "telemetry"} :
       LET n == Cardinality({k \in 1 .. Len(pub) : pub[k].type = ty /\ pub[k].machine = i})
       IN /\ n <= 1
          /\ pc = "end" => n = 1
          /\ (pc \in {"predict", "step"} /\ i < mi) => n = 1

\* C21: timestamps in the published stream never decrease, every
\* publication made during a tick carries that tick's index, and within a
\* tick the per-machine publications (status, telemetry, FAILED, STEP_DONE,
\* COMPLETED, PREDICTION) appear in machine registry order, with exactly one
\* status snapshot and one telemetry sample per machine per tick.
C21_StreamOrderedByTickAndVisit == [][t' >= t /\ StreamInOrder']_vars

\* the loop of a tick is over and two machines published an event in it, the
\* one earlier in the registry first
C21_Witness ==
  /\ pc = "end"
  /\ \E k, l \in 1 .. Len(pub) :
       /\ k < l
       /\ pub[k].type \in {"FAILED", "STEP_DONE", "COMPLETED", "PREDICTION"}
       /\ pub[l].type \in {"FAILED", "STEP_DONE", "COMPLETED", "PREDICTION"}
       /\ pub[k].machine < pub[l].machine

\* the machine being visited holds a job and is not under repair: step()
\* will apply the load of a tick of work
StepOfBusyMachine == pc = "step" /\ mach[mi].repairing_left = 0 /\ mach[mi].busy_with # NoJob

\* after the step, the readings of the machine visited are at or over a threshold
OverThresholdAfter ==
  \/ mach'[mi].temperature >= machines[mi].temp_threshold
  \/ mach'[mi].vibration >= machines[mi].vib_threshold

\* the job-shop events the step being taken publishes
NewJobShopEvents ==
  {k \in (Len(pub) + 1) .. Len(pub') :
     pub'[k].type \in {"FAILED", "STEP_DONE", "COMPLETED"}}

\* a step() of a busy machine that ends at or over a threshold
FailedStepEffects ==
  (StepOfBusyMachine /\ OverThresholdAfter) =>
    LET id == mach[mi].busy_with
    IN /\ jobs' = jobs
       /\ mach'[mi].busy_with = NoJob
       /\ mach'[mi].repairing_left = machines[mi].repair_time
       /\ \A i \in M \ {mi} : mach'[i] = mach[i]
       /\ \E k \in NewJobShopEvents :
            /\ NewJobShopEvents = {k}
            /\ pub'[k].type = "FAILED" /\ pub'[k].job_id = id /\ pub'[k].machine = mi

\* C22: when step() of a busy machine finds temperature >= temp_threshold
\* or vibration >= vib_threshold after the physics update, the job does no
\* work in that tick: its remaining ticks on the current step, its
\* current_step and its energy_used are unchanged (progress already made is
\* neither lost nor rewound), the machine detaches the job, sets
\* repairing_left = repair_time and returns FAILED with that job.
C22_FailedStepKeepsProgress == [][FailedStepEffects]_vars

\* a machine has just FAILED under a job that had already worked part of its
\* step: the job keeps what it had left
C22_Witness ==
  /\ pc \in {"predict", "end"}
  /\ pub # << >>
  /\ pub[Len(pub)].type = "FAILED"
  /\ LET j == jobs[pub[Len(pub)].job_id]
         c == JobCatalog[((j.job_id - 1) % Len(JobCatalog)) + 1]
     IN /\ remaining_ticks_on_step(j) >= 1
        /\ remaining_ticks_on_step(j) < c.steps[j.current_step + 1].rem
  /\ mach[pub[Len(pub)].machine].repairing_left = machines[pub[Len(pub)].machine].repair_time

\* a step() of a busy machine that stays below both thresholds
WorkedStepEffects ==
  (StepOfBusyMachine /\ ~OverThresholdAfter) =>
    LET id == mach[mi].busy_with
        j == jobs[id]
        w == jobs'[id]
        before == j.steps[j.current_step + 1].rem
        last_tick == before = 1
        last_step == j.current_step + 1 = Len(j.steps)
        ev(type) == \E k \in NewJobShopEvents :
                      /\ NewJobShopEvents = {k}
                      /\ pub'[k].type = type /\ pub'[k].job_id = id
    IN /\ w.steps[j.current_step + 1].rem = before - 1
       /\ \A x \in 1 .. Len(j.steps) : x # j.current_step + 1 => w.steps[x] = j.steps[x]
       /\ \A o \in JobIds \ {id} : jobs'[o] = jobs[o]
       /\ (last_tick /\ last_step) <=> (ev("COMPLETED") /\ idle(mach'[mi]))
       /\ (last_tick /\ ~last_step) <=> (ev("STEP_DONE") /\ idle(mach'[mi]))
       /\ ~last_tick <=> (NewJobShopEvents = {} /\ mach'[mi].busy_with = id)
       /\ w.current_step = IF last_tick THEN j.current_step + 1 ELSE j.current_step

\* C23: when step() of a busy machine stays below both thresholds, the job's
\* current step loses exactly one remaining tick and the result is COMPLETED
\* (machine idle) iff that was the last tick of the job's last step,
\* STEP_DONE (machine idle) iff that was the last tick of a non-last step,
\* otherwise no event and the machine keeps the job; exactly one of the
\* three occurs.
C23_WorkedStepOutcome == [][WorkedStepEffects]_vars

\* the loop of a tick is over: one machine finished a step of its job in it
\* and another is still at work on an unfinished step
C23_Witness ==
  /\ pc = "end"
  /\ \E k \in 1 .. Len(pub) : pub[k].type = "STEP_DONE"
  /\ \E i \in M : mach[i].busy_with # NoJob

\* reading r2 is reading r moved toward base by the share red (percent) of
\* its excess, to the band: not below base, not above r
MovedTowardBase(r, r2, base, red) ==
  /\ base <= r2 /\ r2 <= r
  /\ (r - r2) * 100 >= (r - base) * red
  /\ (r - r2) * 100 < (r - base) * red + 100

\* what a call of assign on machine mi with job offered does
AssignContract ==
  pc = "asg_call" =>
    LET m == mach[mi]
        m2 == mach'[mi]
        j == jobs[offered]
        fits == /\ m.repairing_left = 0 /\ m.busy_with = NoJob
                /\ j.steps[j.current_step + 1].cls = machines[mi].class_name
    IN /\ pc' \in {"assigned", "refused"}
       /\ pc' = "assigned" <=> fits
       /\ \A i \in M \ {mi} : mach'[i] = mach[i]
       /\ pc' = "refused" => m2 = m
       /\ pc' = "assigned" =>
            /\ m2.busy_with = offered
            /\ m2.repairing_left = 0
            /\ MovedTowardBase(m.temperature, m2.temperature, machines[mi].temp_base, j.reduction)
            /\ MovedTowardBase(m.vibration, m2.vibration, machines[mi].vib_base, j.reduction)

\* C24: assign(job) succeeds iff the machine is idle and job.required_class
\* equals the machine's class; when it fails it returns false and leaves
\* temperature, vibration, busy_with and repairing_left unchanged; when it
\* succeeds it sets busy_with = job and moves temperature and vibration
\* toward their base values by reduction times the excess, never below base.
C24_AssignContract == [][AssignContract]_vars

\* an idle machine with a reading over base was offered a job of another
\* class and refused it
C24_Witness ==
  /\ pc = "refused"
  /\ idle(mach[mi])
  /\ mach[mi].temperature > machines[mi].temp_base
  /\ required_class(jobs[offered]) # machines[mi].class_name

\* the idle machines of class c, in registry order
IdleOf(c) ==
  LET free(i) == machines[i].class_name = c /\ idle(mach[i])
  IN SelectSeq([i \in M |-> i], free)

\* how many jobs at the head of queue q require class c, up to the first
\* one that does not
RECURSIVE FitPrefix(_, _)
FitPrefix(q, c) ==
  IF q = << >> \/ required_class(jobs[Head(q)]) # c THEN 0
  ELSE 1 + FitPrefix(Tail(q), c)

\* what an assignment phase does when machines refuse: a machine that
\* refuses the job popped for it is as it was and has no STARTED, the queue
\* it popped from has the refused job back at its head, and the machines
\* after it are served
RefusalHandled ==
  pc = "asg" =>
    \A c \in Classes :
      LET idles == IdleOf(c)
          q == class_queues[c]
          n == IF Len(idles) <= FitPrefix(q, c) THEN Len(idles) ELSE FitPrefix(q, c)
          refusing == {idles[k] : k \in {x \in 1 .. Len(idles) : x > n /\ Len(q) > n}}
      IN /\ class_queues'[c] = SubSeq(q, n + 1, Len(q))
         /\ \A i \in refusing :
              /\ mach'[i] = mach[i]
              /\ \A k \in 1 .. Len(pub') : pub'[k].machine # i
         /\ \A k \in 1 .. n :
              /\ mach'[idles[k]].busy_with = q[k]
              /\ \E x \in 1 .. Len(pub') :
                   /\ pub'[x].type = "STARTED"
                   /\ pub'[x].machine = idles[k] /\ pub'[x].job_id = q[k]

\* C25: if a machine refuses a job popped for it in the assignment phase,
\* the job is put back at the front, so that the class queue is identical to
\* what it was before the pop, no STARTED event is emitted, machine state is
\* unchanged, and the assigner goes on to the next machine.
C25_RefusedJobPutBack == [][RefusalHandled]_vars

\* an assignment phase is over in which a machine earlier in the registry
\* refused the job at the head of its queue, which is still there, and a
\* later machine was given its job
C25_Witness ==
  /\ pc = "asg_done"
  /\ \E i, l \in M :
       /\ i < l
       /\ idle(mach[i])
       /\ class_queues[machines[i].class_name] # << >>
       /\ required_class(jobs[Head(class_queues[machines[i].class_name])])
            # machines[i].class_name
       /\ mach[l].busy_with # NoJob
       /\ \E x \in 1 .. Len(pub) : pub[x].type = "STARTED" /\ pub[x].machine = l

\* predict_proba raised for the machine the hook has just visited
InvocationFailed == prob = -1

\* machine i has a status snapshot in the stream of the tick
HasStatus(i) == \E k \in 1 .. Len(pub) : pub[k].type = "status" /\ pub[k].machine = i

\* the hook whose model invocation fails changes nothing; step() of the same
\* machine follows, charging the tick's power and publishing the status
\* snapshot; the loop goes on to the next machine and, when it ends, has
\* visited every machine
FailedInvocationSkipped ==
  /\ (pc = "predict" /\ InvocationFailed') =>
       /\ mach' = mach /\ jobs' = jobs /\ class_queues' = class_queues
       /\ pub' = pub /\ completed_jobs' = completed_jobs
       /\ pc' = "step" /\ mi' = mi /\ t' = t
  /\ (pc = "step" /\ InvocationFailed) =>
       /\ t' = t
       /\ \E k \in (Len(pub) + 1) .. Len(pub') :
            pub'[k].type = "status" /\ pub'[k].machine = mi
       /\ mach'[mi].total_power_kwh =
            mach[mi].total_power_kwh + jobs[mach[mi].busy_with].steps[
               jobs[mach[mi].busy_with].current_step + 1].pwr
       /\ IF mi < Len(machines) THEN pc' = "predict" /\ mi' = mi + 1
          ELSE pc' = "end" /\ \A i \in M : HasStatus(i)'

\* C26: if the risk-model invocation fails for machine m in tick t, m is not
\* preempted and keeps its job, no PREDICTION is emitted, step() is still
\* executed for m in tick t, and all remaining machines are processed in
\* that tick.
C26_FailedInvocationSkipped == [][FailedInvocationSkipped]_vars

\* the invocation failed for a machine that holds a job and has a signal near
\* its threshold, which a high risk score would have preempted; the machine
\* still holds the job and step() is next
C26_Witness ==
  /\ pc = "step"
  /\ InvocationFailed
  /\ mach[mi].busy_with # NoJob
  /\ mach[mi].repairing_left = 0
  /\ SignalNear(mi)
  /\ mi < Len(machines)

\* C27: a failing publish to the external sink at any point of a tick
\* (STARTED, PREDICTION, status, telemetry, FAILED, STEP_DONE or COMPLETED)
\* does not escape the tick: the tick still processes all remaining
\* machines, the job-ownership invariant still holds afterwards, and the
\* kernel proceeds to the next tick.
C27_PublishFailureStaysInTick ==
  /\ pc # "crashed"
  /\ pc \in {"tick", "stopped"} => \A id \in JobIds : Places(id) = 1

\* energy_used and total_power_kwh never go down from one state to the next;
\* energy_used of a job changes only in the step() of the machine that holds
\* it, with a tick of work; total_power_kwh of a machine changes only in its
\* own step() while it holds a job
EnergyOnlyGrows ==
  /\ \A id \in JobIds :
       /\ jobs'[id].energy_used >= jobs[id].energy_used
       /\ jobs'[id].energy_used # jobs[id].energy_used =>
            /\ pc = "step" /\ mach[mi].busy_with = id /\ mach[mi].repairing_left = 0
            /\ t' = t
            /\ jobs'[id].steps[jobs[id].current_step + 1].rem =
                 jobs[id].steps[jobs[id].current_step + 1].rem - 1
  /\ \A i \in M :
       /\ mach'[i].total_power_kwh >= mach[i].total_power_kwh
       /\ mach'[i].total_power_kwh # mach[i].total_power_kwh =>
            /\ pc = "step" /\ i = mi /\ t' = t
            /\ mach[i].busy_with # NoJob /\ mach[i].repairing_left = 0

\* C28: across any sequence of ticks each job's energy_used and each
\* machine's total_power_kwh never decrease; a job's energy_used changes
\* only in a tick in which it does a tick of work, and a machine's
\* total_power_kwh changes only in a tick in which it holds a job.
C28_EnergyOnlyGrows == [][EnergyOnlyGrows]_vars

\* a machine that FAILED under a job was charged the power of the tick that
\* the job was not: its total exceeds the energy of the only job it ever held
C28_Witness ==
  /\ pc = "end"
  /\ \E i \in M, id \in JobIds :
       /\ last_failed[i].job = id /\ last_failed[i].tick = t
       /\ jobs[id].energy_used > 0
       /\ mach[i].total_power_kwh > jobs[id].energy_used

\* the step() taken now is that of a machine under repair
StepOfRepairingMachine == pc = "step" /\ mach[mi].repairing_left > 0

\* a step() of a machine under repair: one tick less to go, the readings at
\* base when none is left and untouched otherwise, no event, no job touched
RepairStepEffects ==
  (StepOfRepairingMachine /\ pc' # pc) =>
    /\ mach'[mi].repairing_left = mach[mi].repairing_left - 1
    /\ IF mach[mi].repairing_left = 1
       THEN /\ mach'[mi].temperature = machines[mi].temp_base
            /\ mach'[mi].vibration = machines[mi].vib_base
       ELSE /\ mach'[mi].temperature = mach[mi].temperature
            /\ mach'[mi].vibration = mach[mi].vibration
    /\ mach'[mi].busy_with = mach[mi].busy_with
    /\ mach'[mi].total_power_kwh = mach[mi].total_power_kwh
    /\ NewJobShopEvents = {}
    /\ jobs' = jobs /\ class_queues' = class_queues
    /\ completed_jobs' = completed_jobs

\* C29: the step() that takes repairing_left from 1 to 0 sets temperature
\* to temp_base and vibration to vib_base exactly, whatever they were during
\* the repair; while repairing_left stays above 0 the readings do not change
\* and step() returns no event.
C29_RepairStep == [][RepairStepEffects]_vars

\* a repair just ended: the machine that failed over a threshold repair_time
\* ticks ago is back at its base readings, with no repair tick left
C29_Witness ==
  /\ pc = "end"
  /\ \E i \in M :
       /\ last_failed[i].job # NoJob
       /\ t = last_failed[i].tick + machines[i].repair_time
       /\ mach[i].repairing_left = 0
       /\ mach[i].temperature = machines[i].temp_base
       /\ mach[i].vibration = machines[i].vib_base

\* the STARTED events the assignment phase being taken publishes, as the
\* sequence of their positions in the stream
NewStarted == [k \in 1 .. (Len(pub') - Len(pub)) |-> pub'[Len(pub) + k]]

\* the assignment phase of a tick: in each class the first n jobs of the
\* queue go, in queue order, to the first n idle machines in registry order,
\* n being the lesser of the two counts; the other machines are as they
\* were; the STARTED events come in registry order, one per job handed out;
\* afterwards no class has an idle machine and a waiting job
AssignmentPhaseEffects ==
  pc = "assign" =>
    /\ \A c \in Classes :
         LET idles == IdleOf(c)
             q == class_queues[c]
             n == IF Len(idles) <= Len(q) THEN Len(idles) ELSE Len(q)
         IN /\ class_queues'[c] = SubSeq(q, n + 1, Len(q))
            /\ \A k \in 1 .. n :
                 /\ mach'[idles[k]].busy_with = q[k]
                 /\ \E x \in 1 .. Len(NewStarted) :
                      /\ NewStarted[x].machine = idles[k]
                      /\ NewStarted[x].job_id = q[k]
            /\ \A k \in (n + 1) .. Len(idles) : mach'[idles[k]] = mach[idles[k]]
            /\ \A i \in M :
                 (machines[i].class_name = c /\ idle(mach'[i])) => class_queues'[c] = << >>
    /\ \A i \in M : ~idle(mach[i]) => mach'[i] = mach[i]
    /\ \A x \in 1 .. Len(NewStarted) :
         /\ NewStarted[x].type = "STARTED"
         /\ \A y \in 1 .. Len(NewStarted) :
              x < y => NewStarted[x].machine < NewStarted[y].machine
    /\ jobs' = jobs /\ completed_jobs' = completed_jobs

StartedInTick(c) ==
  {k \in 1 .. Len(pub) : pub[k].type = "STARTED" /\ pub[k].cls = c}

\* C31: during the first WARMUP_TICKS (3) ticks of a run the assigner starts
\* at most one job per machine class per tick, even when several machines
\* of that class are idle and several jobs wait in its queue.
C31_WarmupStartsOnePerClass ==
  (t <= WARMUP_TICKS /\ pc # "tick") =>
    \A c \in Classes : Cardinality(StartedInTick(c)) <= 1

\* the rows published so far for machine i and tick r
RowsOf(i, r) ==
  {k \in 1 .. Len(edge.rows) : edge.rows[k].machine = i /\ edge.rows[k].tick = r}

\* C32: with flush_delay = 1 and the publications delivered to the edge
\* publisher in the order the kernel makes them, every row the edge
\* publishes for machine m and tick r carries failure_flag = 1 iff a FAILED
\* event for m was emitted at tick r or at tick r + 1, and every buffered
\* row is published exactly once, on a flush or at shutdown.  (Read when all
\* that the kernel has published is delivered and tick r + 1 is over.)
C32_EdgeLabelsAndPublishesOnce ==
  (EdgeCaughtUp /\ pc \in {"tick", "stopped"}) =>
    /\ \A k \in 1 .. Len(edge.rows) :
         LET row == edge.rows[k]
         IN row.failure_flag = 1 <=>
              \/ row.tick \in edge.failure_ticks[row.machine]
              \/ (row.tick + 1) \in edge.failure_ticks[row.machine]
    /\ \A i \in M, r \in 1 .. t :
         /\ Cardinality(RowsOf(i, r)) <= 1
         /\ ~edge.on => Cardinality(RowsOf(i, r)) = 1

\* the positions of env.ran at which a process of the given kind ran
RanAt(ev, kind) == {x \in 1 .. Len(ev.ran) : ev.ran[x].kind = kind}

\* the order of the tick driver within the current minute, as far as the
\* minute has gone: no process twice, the periodic re-plan before the
\* assigner, the assigner before every machine driver, the machine drivers
\* in registry order, a due re-plan not skipped, and no STARTED once a
\* machine driver has published
MinuteInOrder(ev, now, pb) ==
  /\ \A x \in 1 .. Len(ev.ran), y \in 1 .. Len(ev.ran) :
       x < y =>
         /\ ev.ran[x] # ev.ran[y]
         /\ ev.ran[y].kind = "iha" => ev.ran[x].kind \notin {"assigner", "machine"}
         /\ ev.ran[y].kind = "assigner" => ev.ran[x].kind # "machine"
         /\ (ev.ran[x].kind = "machine" /\ ev.ran[y].kind = "machine") =>
              ev.ran[x].m < ev.ran[y].m
  /\ (now > 0 /\ now % IHA_INTERVAL_MIN = 0 /\ RanAt(ev, "assigner") # {}) =>
       RanAt(ev, "iha") # {}
  /\ \A x \in 1 .. Len(pb), y \in 1 .. Len(pb) :
       (x < y /\ pb[y].type = "STARTED") => pb[x].type = "STARTED"

\* a step of the discrete-event driver keeps the minute in order, and the
\* clock moves on only when the assigner and every machine driver have run
\* in the minute that ends
DriverKeepsOrder ==
  /\ MinuteInOrder(env', t', pub')
  /\ t' > t =>
       /\ Cardinality(RanAt(env, "assigner")) = 1
       /\ \A i \in M : Cardinality({x \in RanAt(env, "machine") : env.ran[x].m = i}) = 1

\* C33: in the discrete-event (SimPy) driver the per-tick ordering of the
\* tick driver is preserved: at every simulated minute a due periodic
\* re-plan runs before the assigner, the assigner runs before any machine
\* driver, and the machine drivers run in registry order, each exactly once
\* per minute, so that no machine advances before the minute's assignment
\* and a job detached by one machine in a minute is never started on
\* another machine in the same minute.
C33_SimPyKeepsTickOrder == [][DriverKeepsOrder]_vars

\* minute 10 is over: the re-plan ran, then the assigner, the monitor and
\* the three machine drivers, while a job was still in the shop
C33_Witness ==
  /\ pc = "simpy"
  /\ t = IHA_INTERVAL_MIN
  /\ env.ran = << Proc("iha", 0), Proc("assigner", 0), Proc("monitor", 0) >> \o
               [i \in M |-> Proc("machine", i)]
  /\ ~_all_done(mach, class_queues)

\* the remaining ticks of job id, over all its steps
WorkLeft(id) == SumRem(jobs[id].steps, Len(jobs[id].steps))

\* job id waits in a class queue
Waiting(id) == \E c \in Classes : \E k \in 1 .. Len(class_queues[c]) : class_queues[c][k] = id

\* a step of the kernel gives no job a second tick of work in the tick,
\* puts a job on a machine in the assignment phase only, which comes before
\* any machine is visited, and leaves the fields of a waiting job alone
WorkOncePerTick ==
  /\ \A id \in JobIds : work0'[id] - WorkLeft(id)' \in {0, 1}
  /\ \A i \in M :
       (mach'[i].busy_with # NoJob /\ mach'[i].busy_with # mach[i].busy_with) =>
         /\ pc = "assign"
         /\ pub = << >>
         /\ Waiting(mach'[i].busy_with)
  /\ \A id \in JobIds : Waiting(id) => jobs'[id] = jobs[id]

\* C34: no job receives more than one tick of work in a single tick, and a
\* job detached in tick t by STEP_DONE, FAILED or PREDICTION is not started
\* on any machine before the assignment phase of tick t + 1, even when an
\* idle machine of the required class is visited later in tick t; the fields
\* of a job waiting in a queue (remaining ticks, current_step, energy_used)
\* never change.
C34_WorkOncePerTick == [][WorkOncePerTick]_vars

\* the end of a tick in which a machine let a job go that now waits for a
\* class of which a machine later in the registry was idle when visited
C34_Witness ==
  /\ pc = "end"
  /\ \E x \in 1 .. Len(pub) :
       /\ pub[x].type \in {"STEP_DONE", "FAILED", "PREDICTION"}
       /\ Waiting(pub[x].job_id)
       /\ \E k \in M :
            /\ k > pub[x].machine
            /\ machines[k].class_name = required_class(jobs[pub[x].job_id])
            /\ idle(mach[k])
            /\ \E y \in 1 .. Len(pub) :
                 y > x /\ pub[y].type = "status" /\ pub[y].machine = k

\* the publications of the current tick made in the visit of machine i whose
\* type is one of types
ByMachine(i, types) == {x \in 1 .. Len(pub) : pub[x].machine = i /\ pub[x].type \in types}

\* C35: when the preemption hook fires for machine m in tick t, the step()
\* of the same tick already counts down the repair timer: the preempted job
\* does no work in tick t, m emits no FAILED, STEP_DONE or COMPLETED in tick
\* t, repairing_left = repair_time - 1 at the end of tick t, and m can be
\* assigned a job again in tick t + repair_time, one tick earlier than after
\* a threshold FAILED in tick t.
C35_PreemptionRepairsOneTickLess ==
  \A i \in M :
    LET tp == last_preempted[i]
        tf == last_failed[i].tick
        R == machines[i].repair_time
    IN /\ (pc = "end" /\ tp = t) =>
            /\ ByMachine(i, {"FAILED", "STEP_DONE", "COMPLETED"}) = {}
            /\ \E x \in ByMachine(i, {"PREDICTION"}) :
                 /\ ByMachine(i, {"PREDICTION"}) = {x}
                 /\ WorkLeft(pub[x].job_id) = work0[pub[x].job_id]
                 /\ jobs[pub[x].job_id].current_step = cs0[pub[x].job_id]
       /\ (pc = "end" /\ tp # 0 /\ t <= tp + R - 1) =>
            mach[i].repairing_left = R - 1 - (t - tp)
       /\ (pc = "assign" /\ tp # 0 /\ t = tp + R) => idle(mach[i])
       /\ (pc = "assign" /\ tf # 0 /\ t = tf + R) => mach[i].repairing_left = 1
       /\ (pc = "assign" /\ tf # 0 /\ t = tf + R + 1) => idle(mach[i])

\* a machine preempted repair_time ticks ago has just been given a job by
\* the assignment phase
C35_Witness ==
  /\ pc = "predict" /\ mi = 1
  /\ \E i \in M :
       /\ last_preempted[i] # 0
       /\ t = last_preempted[i] + machines[i].repair_time
       /\ ByMachine(i, {"STARTED"}) # {}

\* some machine holds job id
Held(id) == \E i \in M : mach[i].busy_with = id

\* C36: event accounting per job: at every tick boundary, for every job j,
\* #STARTED(j) = #STEP_DONE(j) + #COMPLETED(j) + #FAILED(j) + #PREDICTION(j)
\* + (1 if some machine currently holds j, else 0); #COMPLETED(j) <= 1;
\* #STEP_DONE(j) <= len(steps) - 1 with equality once j is completed; and j
\* is in the completed set iff #COMPLETED(j) = 1.
C36_EventAccounting ==
  pc \in {"tick", "stopped"} =>
    \A id \in JobIds :
      /\ tally[id].open = IF Held(id) THEN 1 ELSE 0
      /\ tally[id].completed <= 1
      /\ tally[id].step_done <= Len(jobs[id].steps) - 1
      /\ id \in completed_jobs => tally[id].step_done = Len(jobs[id].steps) - 1
      /\ id \in completed_jobs <=> tally[id].completed = 1

\* a tick boundary with one job completed after a step on each class of its
\* route and the other job on a machine again after a FAILED or a PREDICTION
C36_Witness ==
  /\ pc = "tick"
  /\ \E id \in JobIds :
       /\ id \in completed_jobs
       /\ tally[id].step_done >= 1
  /\ \E id \in JobIds :
       /\ Held(id)
       /\ job_events[id] = << "DISTURBED" >>

\* machine i shows a reading at or over a threshold
OverThreshold(i) ==
  \/ mach[i].temperature >= machines[i].temp_threshold
  \/ mach[i].vibration >= machines[i].vib_threshold

\* C37: at every tick boundary every machine that is not repairing (idle or
\* busy) has temperature < temp_threshold and vibration < vib_threshold; a
\* reading at or above a threshold is only ever observable on a machine with
\* repairing_left > 0 (temp_base < temp_threshold, vib_base < vib_threshold
\* and repair_time >= 1 hold for every machine of the registry).
C37_OverThresholdOnlyInRepair ==
  \A i \in M : OverThreshold(i) => mach[i].repairing_left > 0

\* a tick boundary with one machine in repair, its readings still over a
\* threshold, and another at work with a reading above its base
C37_Witness ==
  /\ pc = "tick"
  /\ \E i \in M : OverThreshold(i) /\ mach[i].repairing_left > 0
  /\ \E k \in M :
       /\ mach[k].busy_with # NoJob
       /\ mach[k].temperature > machines[k].temp_base \/ mach[k].vibration > machines[k].vib_base

\* C38: in every reachable state, not only right after a repair, every
\* machine has temperature >= temp_base and vibration >= vib_base: neither
\* the per-job cooldown applied by assign (reduction in [0.2, 0.6]), nor the
\* idle cooldown, nor the physics update with the catalogued job increments
\* and noise ranges can take a reading below its base value.
C38_ReadingsNeverBelowBase ==
  pc = "phys" =>
    \A i \in M :
      /\ mach[i].temperature >= physical[i].temp_base
      /\ mach[i].vibration >= physical[i].vib_base

\* a machine that a tick of work with the most negative noise has heated
\* and that the assign of the next job has cooled: both readings above base
\* by less than the least load leaves
C38_Witness ==
  /\ pc = "phys"
  /\ mach[mi].busy_with # NoJob
  /\ mach[mi].temperature > physical[mi].temp_base
  /\ mach[mi].temperature < physical[mi].temp_base + 200
  /\ mach[mi].vibration > physical[mi].vib_base
  /\ mach[mi].vibration < physical[mi].vib_base + 40

\* the remaining ticks of jobs 1 .. n together
RECURSIVE TotalLeft(_, _)
TotalLeft(js, n) ==
  IF n = 0 THEN 0 ELSE SumRem(js[n].steps, Len(js[n].steps)) + TotalLeft(js, n - 1)

\* no step of the kernel increases the total remaining work
WorkNeverIncreases == TotalLeft(jobs', NumJobs) <= TotalLeft(jobs, NumJobs)

Min2(a, b) == IF a <= b THEN a ELSE b

\* C40: for n >= 1 jobs and m >= 1 machines run_iha returns exactly
\* min(n, m) (job, machine) pairs of the jobs and machines it was given, in
\* which no job and no machine occurs twice, with the solver and with the
\* greedy fallback alike; it returns the empty list iff n = 0 or m = 0.
C40_RunIhaReturnsMatching ==
  pc \in {"returned", "returned_by_fallback"} =>
    LET a == iha_call.assignments
        n == Len(iha_call.job_list)
        m == Len(iha_call.mach_list)
    IN /\ (n >= 1 /\ m >= 1) => Len(a) = Min2(n, m)
       /\ \A x \in 1 .. Len(a) :
             /\ \E y \in 1 .. n : a[x][1] = iha_call.job_list[y]
             /\ \E y \in 1 .. m : a[x][2] = iha_call.mach_list[y]
       /\ \A x, y \in 1 .. Len(a) : x # y => (a[x][1] # a[y][1] /\ a[x][2] # a[y][2])
       /\ a = << >> <=> (n = 0 \/ m = 0)

\* the greedy fallback has paired one of two jobs with the only machine
\* given: the other job's cell lay in a padded column
C40_Witness ==
  /\ pc = "returned"
  /\ ~has_scipy
  /\ Len(iha_call.job_list) = 2
  /\ Len(iha_call.mach_list) = 1
  /\ Len(iha_call.assignments) = 1

====
